---- MODULE Spec2Model ----
(***************************************************************************)
(* State-machine model of the WhatsApp message archiver (caferrerb/wp):    *)
(* the connection/session manager, the message normalizer with its store,  *)
(* the event and error logs and the command interpreter.                    *)
(*                                                                          *)
(* Strings are modelled as sequences of symbols (each symbol a TLA+         *)
(* string), so that '', split('@'), includes(), trim(), startsWith() and    *)
(* endsWith() are computed the way the code computes them.  The empty       *)
(* sequence stands for both '' and undefined: every place where the code    *)
(* reads such a value does so through a truthiness test (x || y, if (x)).   *)
(***************************************************************************)
EXTENDS Integers, Sequences, FiniteSets, Bags, TLC

VARIABLES
    started,            \* main() has called initialize()
    status,             \* WhatsAppService.status
    qrCode,             \* WhatsAppService.qrCode: 0 is null, else the socket that issued it
    socket,             \* WhatsAppService.socket: 0 is null, else a socket id
    live,               \* sockets whose transport is up and whose handlers are subscribed
    opened,             \* live sockets that have reported connection 'open'
    reconnectAttempts,  \* WhatsAppService.reconnectAttempts
    timers,             \* bag of pending setTimeout(() => this.connect(), delay), by delay
    pendingConnects,    \* connect() calls suspended at their first await
    loggedOut,          \* history: a logged-out close happened and no resetSession() since
    stopped,            \* history: disconnect() completed and no resetSession() since
    reconnectDue,       \* history: a non-logged-out close happened and connect() not yet called since
    credentials,        \* the session directory holds credential files
    remoteLogouts,      \* history: number of socket.logout() calls
    now,                \* wall clock, in seconds
    messages,           \* the messages table, in insertion order
    events,             \* the events table, in insertion order
    errors,             \* the errors table, in insertion order
    groups,             \* the groups table: cached group names and pictures
    contacts,           \* the contacts table: cached contact pictures
    refreshes,          \* bag of metadata refreshes suspended at their fetch
    ongoingCalls,       \* WhatsAppService.ongoingCalls, call id to start time
    observed,           \* history: call id to the time of its last offer, ringing or accept event
    config,             \* configuration read at start-up
    jobs,               \* command handlers suspended at an await
    executed,           \* history: the handler invocations made by executeCommand
    results,            \* history: the CommandResults seen by processMessage, and whether the reply went out
    emails,             \* the emails delivered by the email capability
    rejected,           \* history: some processMessage() call ended by throwing
    handled,            \* history: number of processMessage and deletion-handler calls
    last                \* history: the input and outcome of the last such call

authVars == <<credentials, remoteLogouts>>
connVars == <<started, status, qrCode, socket, live, opened, reconnectAttempts,
              timers, pendingConnects, loggedOut, stopped, reconnectDue, authVars>>
storeVars == <<messages, events, errors>>
cmdVars == <<jobs, executed, results, emails>>
histVars == <<rejected, handled, last>>
cacheVars == <<groups, contacts, refreshes>>
callVars == <<ongoingCalls, observed>>
vars == <<connVars, now, storeVars, config, cacheVars, callVars, cmdVars, histVars>>

----------------------------------------------------------------------------
(* Bounds of the model *)

MaxSockets == 2      \* sessions that may exist or be about to exist at once
MaxHandled == 2      \* messages and deletion events handled
MaxExec == 2         \* command handler invocations
MaxTicks == 1        \* clock advances
MaxLen == 3          \* characters of an exported field

(* Program constants *)

maxReconnectAttempts == 5
BackoffStep == 5000
BackoffCap == 30000
CooldownDelay == 60000
FreshnessWindow == 60
RefreshWindow == 86400

DayLength == 86400   \* seconds between two local midnights

Epoch == 90000       \* the wall clock at start-up, in seconds

SocketIds == 1 .. (MaxSockets + 1)

Min(a, b) == IF a < b THEN a ELSE b

----------------------------------------------------------------------------
(* Strings *)

Null == <<"null">>                       \* SQL NULL / JavaScript null
OrNull(s) == IF s = <<>> THEN Null ELSE s  \* s || null

StartsWith(s, p) == Len(s) >= Len(p) /\ SubSeq(s, 1, Len(p)) = p
EndsWith(s, p) == Len(s) >= Len(p) /\ SubSeq(s, Len(s) - Len(p) + 1, Len(s)) = p

\* a.includes(b): b occurs in a as a contiguous run; ''.includes('') and
\* a.includes('') are true.
Includes(a, b) ==
    \E i \in 0 .. (Len(a) - Len(b)) : SubSeq(a, i + 1, i + Len(b)) = b

\* s.split('@')[0]
BeforeAt(s) ==
    IF \E i \in 1 .. Len(s) : s[i] = "@"
    THEN LET i == CHOOSE j \in 1 .. Len(s) :
                     s[j] = "@" /\ \A k \in 1 .. (j - 1) : s[k] # "@"
         IN SubSeq(s, 1, i - 1)
    ELSE s

IsSpace(c) == c = " "

RECURSIVE TrimLeft(_)
TrimLeft(s) == IF s # <<>> /\ IsSpace(Head(s)) THEN TrimLeft(Tail(s)) ELSE s

RECURSIVE TrimRight(_)
TrimRight(s) ==
    IF s # <<>> /\ IsSpace(s[Len(s)]) THEN TrimRight(SubSeq(s, 1, Len(s) - 1)) ELSE s

Trim(s) == TrimRight(TrimLeft(s))

LowerSym(c) ==
    CASE c = "HELP" -> "help"
      [] c = "Qr" -> "qr"
      [] c = "STATE" -> "state"
      [] c = "Email" -> "email"
      [] c = "EMAIL_REPORT_TO" -> "email_report_to"
      [] c = "Error" -> "error"
      [] c = "QR" -> "qr"
      [] c = "CSV" -> "csv"
      [] c = "Health" -> "health"
      [] c = "Current" -> "current"
      [] c = "*Available" -> "*available"
      [] c = "Commands*" -> "commands*"
      [] OTHER -> c

ToLowerCase(s) == [i \in 1 .. Len(s) |-> LowerSym(s[i])]

\* s.split(/\s+/)[0]
FirstToken(s) ==
    IF \E i \in 1 .. Len(s) : IsSpace(s[i])
    THEN LET i == CHOOSE j \in 1 .. Len(s) :
                     IsSpace(s[j]) /\ \A k \in 1 .. (j - 1) : ~IsSpace(s[k])
         IN SubSeq(s, 1, i - 1)
    ELSE s

----------------------------------------------------------------------------
(* Protocol messages (proto.IWebMessageInfo) as the handlers read them *)

Wrappers == {"viewOnceMessage", "viewOnceMessageV2", "viewOnceMessageV2Extension",
             "ephemeralMessage", "documentWithCaptionMessage"}

\* proto.IMessage: keys is Object.keys(message) in order; wrapper names the
\* wrapper key that carries a nested .message (inner), "" when there is none.
Blank == [keys |-> <<>>, conversation |-> <<>>, text |-> <<>>, caption |-> <<>>,
          fileName |-> <<>>, ptt |-> FALSE, mimetype |-> <<>>, label |-> <<>>,
          count |-> 0, lat |-> "undefined", lon |-> "undefined",
          wrapper |-> "", inner |-> <<>>]

HasKey(m, k) == \E i \in 1 .. Len(m.keys) : m.keys[i] = k

\* getContentType(message) of the protocol library: the first key that is
\* 'conversation' or a ...Message key, senderKeyDistributionMessage excepted.
IsContentKey(k) == k \notin {"messageContextInfo", "senderKeyDistributionMessage"}

getContentType(m) ==
    IF \E i \in 1 .. Len(m.keys) : IsContentKey(m.keys[i])
    THEN m.keys[CHOOSE i \in 1 .. Len(m.keys) :
                    /\ IsContentKey(m.keys[i])
                    /\ \A j \in 1 .. (i - 1) : ~IsContentKey(m.keys[j])]
    ELSE ""

RECURSIVE unwrapMessage(_)
unwrapMessage(m) ==
    IF m.wrapper \in Wrappers THEN unwrapMessage(m.inner) ELSE m

getExtensionFromMimetype(mimetype) ==
    CASE mimetype = <<"image/jpeg">> -> ".jpg"
      [] mimetype = <<"image/png">> -> ".png"
      [] mimetype = <<"image/gif">> -> ".gif"
      [] mimetype = <<"image/webp">> -> ".webp"
      [] mimetype = <<"video/mp4">> -> ".mp4"
      [] mimetype = <<"video/3gpp">> -> ".3gp"
      [] mimetype = <<"audio/ogg">> -> ".ogg"
      [] mimetype = <<"audio/mpeg">> -> ".mp3"
      [] mimetype = <<"audio/mp4">> -> ".m4a"
      [] mimetype = <<"application/pdf">> -> ".pdf"
      [] mimetype = <<"application/msword">> -> ".doc"
      [] OTHER -> ".bin"

\* Date.now(), at the one-second resolution of the model's clock.
DateNow(t) == t * 1000

\* downloadMedia(msg, type, mimetype).  dl is what downloadMediaMessage does:
\* "ok" (bytes), "empty" (no buffer) or "throws"; with this.socket null the
\* argument this.socket!.updateMediaMessage throws inside the try block.
\* Variant: a path is returned whether or not the download produced a buffer.
downloadMedia_Unchecked(env, type, mimetype, dl, sock, t) ==
    LET outcome == IF sock = 0 THEN "throws" ELSE dl
        idPart == IF env.id # <<>> THEN env.id ELSE <<ToString(DateNow(t))>>
    IN  [path |-> <<"/media/", type, "_">> \o idPart
                     \o <<getExtensionFromMimetype(mimetype)>>,
         logged |-> (outcome = "throws")]

downloadMedia(env, type, mimetype, dl, sock, t) ==
    LET outcome == IF sock = 0 THEN "throws" ELSE dl
        idPart == IF env.id # <<>> THEN env.id ELSE <<ToString(DateNow(t))>>
    IN  IF outcome = "ok"
        THEN [path |-> <<"/media/", type, "_">> \o idPart
                          \o <<getExtensionFromMimetype(mimetype)>>,
              logged |-> FALSE]
        ELSE [path |-> <<>>, logged |-> (outcome = "throws")]

Or(a, b) == IF a # <<>> THEN a ELSE b        \* a || b on strings

Extracted(type, content) ==
    [type |-> type, content |-> content, mediaPath |-> <<>>, mimetype |-> <<>>,
     logged |-> FALSE]

Media(type, content, m, media) ==
    [type |-> type, content |-> content, mediaPath |-> media.path,
     mimetype |-> m.mimetype, logged |-> media.logged]

\* extractAndDownloadContent(msg)
extractAndDownloadContent(env, dl, sock, t) ==
    LET m == unwrapMessage(env.message) IN
    IF m.conversation # <<>> THEN Extracted("text", m.conversation)
    ELSE IF HasKey(m, "extendedTextMessage") /\ m.text # <<>>
    THEN Extracted("text", m.text)
    ELSE IF HasKey(m, "imageMessage")
    THEN Media("image", Or(m.caption, <<"[Image]">>), m,
               downloadMedia(env, "image", Or(m.mimetype, <<"image/jpeg">>), dl, sock, t))
    ELSE IF HasKey(m, "videoMessage")
    THEN Media("video", Or(m.caption, <<"[Video]">>), m,
               downloadMedia(env, "video", Or(m.mimetype, <<"video/mp4">>), dl, sock, t))
    ELSE IF HasKey(m, "audioMessage")
    THEN Media(IF m.ptt THEN "voice" ELSE "audio",
               IF m.ptt THEN <<"[Voice note]">> ELSE <<"[Audio]">>, m,
               downloadMedia(env, IF m.ptt THEN "voice" ELSE "audio",
                             Or(m.mimetype, <<"audio/ogg">>), dl, sock, t))
    ELSE IF HasKey(m, "documentMessage")
    THEN Media("document", Or(m.fileName, <<"[Document]">>), m,
               downloadMedia(env, "document",
                             Or(m.mimetype, <<"application/octet-stream">>), dl, sock, t))
    ELSE IF HasKey(m, "stickerMessage")
    THEN Media("sticker", <<"[Sticker]">>, m,
               downloadMedia(env, "sticker", Or(m.mimetype, <<"image/webp">>), dl, sock, t))
    ELSE IF HasKey(m, "contactMessage")
    THEN Extracted("contact", Or(m.label, <<"[Contact]">>))
    ELSE IF HasKey(m, "contactsArrayMessage")
    THEN Extracted("contacts", <<"[", ToString(m.count), " Contacts]">>)
    ELSE IF HasKey(m, "locationMessage")
    THEN Extracted("location", <<"Location: ", m.lat, ", ", m.lon>>)
    ELSE IF HasKey(m, "liveLocationMessage")
    THEN Extracted("live_location", <<"[Live Location]">>)
    ELSE IF HasKey(m, "pollCreationMessage")
    THEN Extracted("poll", Or(m.label, <<"[Poll]">>))
    ELSE IF HasKey(m, "buttonsResponseMessage")
    THEN Extracted("button_response", Or(m.label, <<"[Button response]">>))
    ELSE IF HasKey(m, "listResponseMessage")
    THEN Extracted("list_response", Or(m.label, <<"[List response]">>))
    ELSE IF HasKey(m, "messageContextInfo")
    THEN Extracted("skip", <<>>)
    ELSE IF \A i \in 1 .. Len(m.keys) : m.keys[i] = "messageContextInfo"
    THEN Extracted("skip", <<>>)
    ELSE Extracted("unknown", <<"[Unsupported message]">>)

\* The timestamp block of processMessage.  ts is the wire representation:
\* kind "absent", "number", "long" (a Long object), "string" (a numeric
\* string) or "nan" (a string Number() cannot parse); val its numeric value.
NormalizeTimestamp(ts, t) ==
    CASE ts.kind = "absent" -> t
      [] ts.kind = "number" -> IF ts.val = 0 THEN t ELSE ts.val
      [] ts.kind = "long" -> ts.val
      [] ts.kind = "string" -> IF ts.val = 0 THEN t ELSE ts.val
      [] OTHER -> t

LidSuffix == <<"@", "lid">>
GroupSuffix == <<"@", "g.us">>
StatusBroadcast == <<"status", "@", "broadcast">>
storeStatusMessages == FALSE      \* config.whatsapp has no such option

\* Variant: the conversation id is stored as it arrives.
NormalizeJid_Raw(env) == env.remoteJid

\* remoteJid normalisation of processMessage
NormalizeJid(env) ==
    IF EndsWith(env.remoteJid, LidSuffix) /\ env.remoteJidAlt # <<>>
    THEN env.remoteJidAlt
    ELSE env.remoteJid

\* Variant: no freshness test.
isRecentMessage_Always(messageAgeSeconds) == TRUE

isRecentMessage(messageAgeSeconds) == messageAgeSeconds < FreshnessWindow

----------------------------------------------------------------------------
(* Message store: MessageService.createMessage over the messages table *)

HasMessageId(table, id) == \E i \in 1 .. Len(table) : table[i].message_id = id

Row(table, params, t) ==
    [id |-> Len(table) + 1,
     remote_jid |-> params.remote_jid,
     sender_name |-> OrNull(params.sender_name),
     participant_jid |-> OrNull(params.participant_jid),
     message_id |-> params.message_id,
     message_type |-> params.message_type,
     content |-> OrNull(params.content),
     timestamp |-> params.timestamp,
     is_group |-> params.is_group,
     is_from_me |-> params.is_from_me,
     media_path |-> OrNull(params.media_path),
     media_mimetype |-> OrNull(params.media_mimetype),
     created_at |-> t]

\* INSERT under the UNIQUE(message_id) constraint; the constraint error is
\* caught and turned into a null result, any other error is rethrown.
\* Variant: a messages table without the UNIQUE(message_id) constraint.
createMessage_NoUnique(table, params, t) ==
    [table |-> Append(table, Row(table, params, t)), saved |-> TRUE, threw |-> FALSE]

createMessage(table, params, t) ==
    IF HasMessageId(table, params.message_id)
    THEN [table |-> table, saved |-> FALSE, threw |-> FALSE]
    ELSE [table |-> Append(table, Row(table, params, t)), saved |-> TRUE,
          threw |-> FALSE]

----------------------------------------------------------------------------
(* Connection / session manager: whatsapp.service.ts *)

\* connect() is taken to complete once called: fetchLatestBaileysVersion()
\* falls back to a built-in version instead of throwing.

\* Sessions that exist or that a scheduled or suspended connect() will create.
ResetJobs == {i \in 1 .. Len(jobs) : jobs[i].pc = "reset"}
Potential == Cardinality(live) + pendingConnects + BagCardinality(timers)
             + Cardinality(ResetJobs)

NewSocket == CHOOSE s \in SocketIds :
                /\ s \notin live /\ s # socket
                /\ \A t \in SocketIds : (t \notin live /\ t # socket) => s <= t

\* connection === 'close' branch of the connection.update handler, as functions
\* of the attempt counter and the timer bag it finds.
CloseAttempts(a, isLoggedOut) ==
    IF ~isLoggedOut /\ a < maxReconnectAttempts THEN a + 1
    ELSE IF isLoggedOut THEN a
    ELSE 0

\* Variant: no timer is armed once the attempt budget is used up.
CloseTimers_GiveUp(t, a, isLoggedOut) ==
    IF ~isLoggedOut /\ a < maxReconnectAttempts
    THEN t (+) SetToBag({Min(BackoffStep * (a + 1), BackoffCap)})
    ELSE t

CloseTimers(t, a, isLoggedOut) ==
    IF ~isLoggedOut /\ a < maxReconnectAttempts
    THEN t (+) SetToBag({Min(BackoffStep * (a + 1), BackoffCap)})
    ELSE IF isLoggedOut THEN t
    ELSE t (+) SetToBag({CooldownDelay})

\* main(): await whatsAppService.initialize(), once per process.
Initialize ==
    /\ ~started
    /\ started' = TRUE
    /\ pendingConnects' = pendingConnects + 1
    /\ reconnectDue' = FALSE
    /\ UNCHANGED <<status, qrCode, socket, live, opened, reconnectAttempts,
                   timers, loggedOut, stopped>>
    /\ UNCHANGED <<now, storeVars, config, cacheVars, callVars, cmdVars, histVars, authVars>>

\* connect() after its awaits: status, makeWASocket, handler subscription.
ConnectFinish ==
    /\ pendingConnects > 0
    /\ pendingConnects' = pendingConnects - 1
    /\ status' = "connecting"
    /\ socket' = NewSocket
    /\ live' = live \cup {NewSocket}
    /\ UNCHANGED <<started, qrCode, opened, reconnectAttempts, timers,
                   loggedOut, stopped, reconnectDue>>
    /\ UNCHANGED <<now, storeVars, config, cacheVars, callVars, cmdVars, histVars, authVars>>

\* connection.update carrying a qr payload.
QrEvent(s) ==
    /\ s \in live /\ s \notin opened
    /\ qrCode' = s
    /\ status' = "qr_ready"
    /\ UNCHANGED <<started, socket, live, opened, reconnectAttempts, timers,
                   pendingConnects, loggedOut, stopped, reconnectDue>>
    /\ UNCHANGED <<now, storeVars, config, cacheVars, callVars, cmdVars, histVars, authVars>>

\* connection.update with connection === 'open'.
OpenEvent(s) ==
    /\ s \in live /\ s \notin opened
    /\ opened' = opened \cup {s}
    /\ status' = "connected"
    /\ qrCode' = 0
    /\ reconnectAttempts' = 0
    /\ UNCHANGED <<started, socket, live, timers, pendingConnects, loggedOut, stopped,
                   reconnectDue>>
    /\ UNCHANGED <<now, storeVars, config, cacheVars, callVars, cmdVars, histVars, authVars>>

\* creds.update: saveCreds writes the credential files of session s.
CredsUpdate(s) ==
    /\ s \in live
    /\ credentials' = TRUE
    /\ UNCHANGED <<started, status, qrCode, socket, live, opened, reconnectAttempts,
                   timers, pendingConnects, loggedOut, stopped, reconnectDue, remoteLogouts>>
    /\ UNCHANGED <<now, storeVars, config, cacheVars, callVars, cmdVars, histVars>>

\* connection.update with connection === 'close', reported by the transport.
CloseEvent(s, isLoggedOut) ==
    /\ s \in live
    /\ live' = live \ {s}
    /\ opened' = opened \ {s}
    /\ status' = "disconnected"
    /\ qrCode' = 0
    /\ reconnectAttempts' = CloseAttempts(reconnectAttempts, isLoggedOut)
    /\ timers' = CloseTimers(timers, reconnectAttempts, isLoggedOut)
    /\ loggedOut' = (loggedOut \/ isLoggedOut)
    /\ stopped' = stopped
    /\ reconnectDue' = (reconnectDue \/ ~isLoggedOut)
    /\ UNCHANGED <<started, socket, pendingConnects>>
    /\ UNCHANGED <<now, storeVars, config, cacheVars, callVars, cmdVars, histVars, authVars>>

\* A reconnect timer fires: () => this.connect().
TimerFire(d) ==
    /\ BagIn(d, timers)
    /\ timers' = timers (-) SetToBag({d})
    /\ pendingConnects' = pendingConnects + 1
    /\ reconnectDue' = FALSE
    /\ UNCHANGED <<started, status, qrCode, socket, live, opened,
                   reconnectAttempts, loggedOut, stopped>>
    /\ UNCHANGED <<now, storeVars, config, cacheVars, callVars, cmdVars, histVars, authVars>>

\* socket.end(undefined) on this.socket.  The protocol library may report the
\* end of a live transport to the connection.update handler (emits), which
\* then runs its 'close' branch with no status code before end() returns.
EndAttempts(emits) ==
    IF socket \in live /\ emits THEN CloseAttempts(reconnectAttempts, FALSE)
    ELSE reconnectAttempts

EndTimers(emits) ==
    IF socket \in live /\ emits THEN CloseTimers(timers, reconnectAttempts, FALSE)
    ELSE timers

\* The synchronous part of resetSession(), up to the first await of connect().
ResetSessionBody(emits) ==
    /\ live' = live \ {socket}
    /\ opened' = opened \ {socket}
    /\ socket' = 0
    /\ status' = "disconnected"
    /\ qrCode' = 0
    /\ reconnectAttempts' = 0
    /\ timers' = EndTimers(emits)
    /\ loggedOut' = FALSE
    /\ stopped' = FALSE
    /\ credentials' = FALSE
    /\ UNCHANGED <<started, remoteLogouts>>

\* POST /whatsapp/reset: MessageController.resetSession.
ResetSession(emits) ==
    /\ started
    /\ Potential + (IF socket \in live /\ ~emits THEN 0 ELSE 1) <= MaxSockets
    /\ ResetSessionBody(emits)
    /\ pendingConnects' = pendingConnects + 1
    /\ reconnectDue' = FALSE
    /\ UNCHANGED <<now, storeVars, config, cacheVars, callVars, cmdVars, histVars>>

\* Variant: disconnect() through socket.logout(), which unlinks the device.
Disconnect_Logout(emits) ==
    /\ started
    /\ socket # 0
    /\ live' = live \ {socket}
    /\ opened' = opened \ {socket}
    /\ socket' = 0
    /\ status' = "disconnected"
    /\ qrCode' = 0
    /\ reconnectAttempts' = EndAttempts(emits)
    /\ timers' = EndTimers(emits)
    /\ reconnectDue' = (reconnectDue \/ (socket \in live /\ emits))
    /\ remoteLogouts' = remoteLogouts + 1
    /\ credentials' = FALSE
    /\ stopped' = TRUE
    /\ UNCHANGED <<started, pendingConnects, loggedOut>>
    /\ UNCHANGED <<now, storeVars, config, cacheVars, callVars, cmdVars, histVars>>

\* disconnect().
Disconnect(emits) ==
    /\ started
    /\ socket # 0
    /\ live' = live \ {socket}
    /\ opened' = opened \ {socket}
    /\ socket' = 0
    /\ status' = "disconnected"
    /\ qrCode' = 0
    /\ reconnectAttempts' = EndAttempts(emits)
    /\ timers' = EndTimers(emits)
    /\ reconnectDue' = (reconnectDue \/ (socket \in live /\ emits))
    /\ stopped' = TRUE
    /\ UNCHANGED <<started, pendingConnects, loggedOut>>
    /\ UNCHANGED <<now, storeVars, config, cacheVars, callVars, cmdVars, histVars, authVars>>

----------------------------------------------------------------------------
(* Export: export.service.ts over the queries of message.service.ts *)

\* today.setHours(0, 0, 0, 0), in seconds
StartOfDay(t) == t - (t % DayLength)

\* ORDER BY timestamp DESC
RECURSIVE InsertDesc(_, _)
InsertDesc(sorted, row) ==
    IF sorted = <<>> THEN <<row>>
    ELSE IF Head(sorted).timestamp >= row.timestamp
    THEN <<Head(sorted)>> \o InsertDesc(Tail(sorted), row)
    ELSE <<row>> \o sorted

RECURSIVE OrderByTimestampDesc(_)
OrderByTimestampDesc(rows) ==
    IF rows = <<>> THEN <<>>
    ELSE InsertDesc(OrderByTimestampDesc(SubSeq(rows, 1, Len(rows) - 1)),
                    rows[Len(rows)])

IsToday(row, t) == row.timestamp >= StartOfDay(t)

getMessagesToday(table, t) ==
    OrderByTimestampDesc(SelectSeq(table, LAMBDA row : IsToday(row, t)))

getAllMessages(table) == OrderByTimestampDesc(table)

\* Characters with a meaning in CSV
Comma == ","
Quote == "\""
LineFeed == "\n"
CarriageReturn == "\r"

\* field.replace(/"/g, '""')
RECURSIVE DoubleQuotes(_)
DoubleQuotes(field) ==
    IF field = <<>> THEN <<>>
    ELSE (IF Head(field) = Quote THEN <<Quote, Quote>> ELSE <<Head(field)>>)
         \o DoubleQuotes(Tail(field))

NeedsQuoting(field) ==
    \E i \in 1 .. Len(field) : field[i] \in {Comma, Quote, LineFeed, CarriageReturn}

\* Variant: the field is wrapped in quotes but its inner quotes are kept single.
escapeCsvField_Undoubled(field) ==
    IF NeedsQuoting(field) THEN <<Quote>> \o field \o <<Quote>> ELSE field

escapeCsvField(field) ==
    IF NeedsQuoting(field) THEN <<Quote>> \o DoubleQuotes(field) \o <<Quote>> ELSE field

\* generateCsv: the header line, then one line per message
CsvHeader == <<"ID", "Remote JID", "Sender Name", "Message ID", "Type", "Content",
               "Timestamp", "Is Group", "Created At">>

CsvLine(msg) ==
    <<msg.id, escapeCsvField(msg.remote_jid),
      escapeCsvField(IF msg.sender_name = Null THEN <<>> ELSE msg.sender_name),
      escapeCsvField(msg.message_id), msg.message_type,
      escapeCsvField(IF msg.content = Null THEN <<>> ELSE msg.content),
      msg.timestamp * 1000,
      IF msg.is_group THEN "Yes" ELSE "No",
      msg.created_at>>

generateCsv(rows) == <<CsvHeader>> \o [i \in 1 .. Len(rows) |-> CsvLine(rows[i])]

generateTodaysCsv(table, t) == generateCsv(getMessagesToday(table, t))

generateAllCsv(table) == generateCsv(getAllMessages(table))

MatchesPhone(msg, phoneNumbers) ==
    LET number == BeforeAt(msg.remote_jid) IN
    \E i \in 1 .. Len(phoneNumbers) :
        \/ Includes(number, phoneNumbers[i])
        \/ Includes(phoneNumbers[i], number)

generateCsvForPhoneNumbers(table, phoneNumbers, t) ==
    IF Len(phoneNumbers) = 0 THEN generateTodaysCsv(table, t)
    ELSE generateCsv(SelectSeq(getMessagesToday(table, t),
                               LAMBDA msg : MatchesPhone(msg, phoneNumbers)))

\* handleMailCsvCommand's attachment
MailCsv(table, filterNumbers, t) ==
    IF Len(filterNumbers) > 0
    THEN generateCsvForPhoneNumbers(table, filterNumbers, t)
    ELSE generateAllCsv(table)

----------------------------------------------------------------------------
(* Command interpreter: command.service.ts *)

\* isCommandNumber(phoneNumber) against config.commands.allowedNumbers
isCommandNumber(phoneNumber, allowedNumbers) ==
    IF Len(allowedNumbers) = 0 THEN FALSE
    ELSE LET cleanNumber == BeforeAt(phoneNumber) IN
         \E i \in 1 .. Len(allowedNumbers) :
             \/ Includes(cleanNumber, allowedNumbers[i])
             \/ Includes(allowedNumbers[i], cleanNumber)

\* The command name executeCommand looks up: trim, lower-case, drop one
\* leading '/', first whitespace-delimited part.
CommandName(message) ==
    LET trimmedMessage == ToLowerCase(Trim(message))
        commandText == IF StartsWith(trimmedMessage, <<"/">>)
                       THEN Tail(trimmedMessage) ELSE trimmedMessage
    IN  FirstToken(commandText)

\* Variant: a command table that also registers 'email' for the csv handler.
HandlerOf_EmailAlias(commandName) ==
    CASE commandName \in {<<"state">>, <<"estado">>, <<"status">>} -> "state"
      [] commandName \in {<<"mail-csv">>, <<"csv">>, <<"email">>} -> "csv"
      [] commandName = <<"qr">> -> "qr"
      [] commandName \in {<<"help">>, <<"ayuda">>} -> "help"
      [] OTHER -> "none"

\* this.commands.get(commandName), by handler; "none" when there is no entry
HandlerOf(commandName) ==
    CASE commandName \in {<<"state">>, <<"estado">>, <<"status">>} -> "state"
      [] commandName \in {<<"mail-csv">>, <<"csv">>} -> "csv"
      [] commandName = <<"qr">> -> "qr"
      [] commandName \in {<<"help">>, <<"ayuda">>} -> "help"
      [] OTHER -> "none"

\* The handler executeCommand(message, fromNumber) invokes; "none" is the
\* null result returned without invoking any handler.
executeCommand(message, fromNumber) ==
    IF ~isCommandNumber(fromNumber, config.allowedNumbers) THEN "none"
    ELSE HandlerOf(CommandName(message))

Recipient == "EMAIL_REPORT_TO"
NoEmailService == <<"Email", " ", "service", " ", "not", " ", "configured">>
NoRecipient == <<"EMAIL_REPORT_TO", " ", "not", " ", "configured">>
HelpText == <<"(clipboard)", " ", "*Available", " ", "Commands*">>
StateSent == <<"(check)", " ", "Health", " ", "check", " ", "sent", " ", "to", " ", Recipient>>
CsvSent == <<"(check)", " ", "CSV", " ", "sent", " ", "to", " ", Recipient>>
QrSent == <<"(check)", " ", "QR", " ", "code", " ", "sent", " ", "to", " ", Recipient, ".">>
QrUnavailable(st) == <<"(warning)", " ", "QR", " ", "code", " ", "not", " ",
                       "available.", " ", "Current", " ", "status:", " ", st>>
ErrorText == <<"Error", " ", "executing", " ", "command:", " ", "send failed">>

SuccessText(cmd) ==
    CASE cmd = "state" -> StateSent
      [] cmd = "csv" -> CsvSent
      [] OTHER -> QrSent

\* sendTextMessage(jid, text): what it does in the current state.
FormatJid(jid) ==
    IF \E i \in 1 .. Len(jid) : jid[i] = "@" THEN jid
    ELSE jid \o <<"@", "s.whatsapp.net">>

sendTextMessage == socket # 0 /\ status = "connected" /\ socket \in live

\* processMessage lines 453-455 on a CommandResult: every handler result has
\* shouldReply set; sent tells whether sendTextMessage handed the text to the
\* session.
Result(c, success, text) ==
    [message_id |-> c.message_id, cmd |-> c.cmd, to |-> FormatJid(c.jid),
     success |-> success, message |-> text, shouldReply |-> TRUE,
     sent |-> sendTextMessage]

Job(c, pc) ==
    [message_id |-> c.message_id, cmd |-> c.cmd, jid |-> c.jid, pc |-> pc,
     status |-> status,
     attachment |-> IF c.cmd = "csv"
                    THEN MailCsv(c.table, config.filterNumbers, now)
                    ELSE <<>>]

RemoveAt(seq, i) == SubSeq(seq, 1, i - 1) \o SubSeq(seq, i + 1, Len(seq))

\* The handler, from its invocation to its first suspension or to its result.
HandlerStart(c) ==
    IF c.cmd = "help"
    THEN /\ results' = Append(results, Result(c, TRUE, HelpText))
         /\ UNCHANGED <<connVars, jobs, emails>>
    ELSE IF ~config.emailService
    THEN /\ results' = Append(results, Result(c, FALSE, NoEmailService))
         /\ UNCHANGED <<connVars, jobs, emails>>
    ELSE IF ~config.reportTo
    THEN /\ results' = Append(results, Result(c, FALSE, NoRecipient))
         /\ UNCHANGED <<connVars, jobs, emails>>
    ELSE IF c.cmd \in {"state", "csv"}
    THEN /\ jobs' = Append(jobs, Job(c, "email"))
         /\ UNCHANGED <<connVars, results, emails>>
    ELSE IF status = "connected"
    THEN \E emits \in BOOLEAN :
         /\ Potential + (IF socket \in live /\ ~emits THEN 0 ELSE 1) <= MaxSockets
         /\ ResetSessionBody(emits)
         /\ reconnectDue' = FALSE
         /\ jobs' = Append(jobs, Job(c, "reset"))
         /\ UNCHANGED <<pendingConnects, results, emails>>
    ELSE IF qrCode = 0
    THEN /\ results' = Append(results, Result(c, FALSE, QrUnavailable(status)))
         /\ UNCHANGED <<connVars, jobs, emails>>
    ELSE \E qrOk \in BOOLEAN :
         IF ~qrOk
         THEN /\ results' = Append(results, Result(c, FALSE, QrUnavailable(status)))
              /\ UNCHANGED <<connVars, jobs, emails>>
         ELSE /\ jobs' = Append(jobs, Job(c, "email"))
              /\ UNCHANGED <<connVars, results, emails>>

\* The connect() awaited by resetSession() inside the qr handler completes;
\* the handler then waits 3000 ms.
JobConnectFinish(i) ==
    /\ i \in 1 .. Len(jobs)
    /\ jobs[i].pc = "reset"
    /\ status' = "connecting"
    /\ socket' = NewSocket
    /\ live' = live \cup {NewSocket}
    /\ jobs' = [jobs EXCEPT ![i].pc = "wait"]
    /\ UNCHANGED <<started, qrCode, opened, reconnectAttempts, timers,
                   pendingConnects, loggedOut, stopped, reconnectDue>>
    /\ UNCHANGED <<now, storeVars, config, cacheVars, callVars, executed, results, emails, histVars, authVars>>

\* The qr handler after its wait: getQrCodeDataUrl(), which is null when no
\* code is held or when QRCode.toDataURL fails (qrOk false).
JobWaitDone(i, qrOk) ==
    /\ i \in 1 .. Len(jobs)
    /\ jobs[i].pc = "wait"
    /\ IF qrCode = 0 \/ ~qrOk
       THEN /\ results' = Append(results,
                    Result(jobs[i], FALSE, QrUnavailable(jobs[i].status)))
            /\ jobs' = RemoveAt(jobs, i)
       ELSE /\ jobs' = [jobs EXCEPT ![i].pc = "email"]
            /\ results' = results
    /\ UNCHANGED <<connVars, now, storeVars, config, cacheVars, callVars, executed, emails, histVars>>

\* Variant: executeCommand without its try/catch; a failed send escapes.
JobEmailDone_Raises(i, ok) ==
    /\ i \in 1 .. Len(jobs)
    /\ jobs[i].pc = "email"
    /\ emails' = IF ok THEN Append(emails, [to |-> Recipient, cmd |-> jobs[i].cmd,
                                             attachment |-> jobs[i].attachment])
                 ELSE emails
    /\ results' = IF ok
                  THEN Append(results, Result(jobs[i], TRUE, SuccessText(jobs[i].cmd)))
                  ELSE results
    /\ jobs' = RemoveAt(jobs, i)
    /\ rejected' = (rejected \/ ~ok)
    /\ UNCHANGED <<connVars, now, storeVars, config, cacheVars, callVars, executed, handled, last>>

\* emailService.sendEmail settles: the handler returns its success result, or
\* executeCommand's catch turns the exception into a failed result.
JobEmailDone(i, ok) ==
    /\ i \in 1 .. Len(jobs)
    /\ jobs[i].pc = "email"
    /\ emails' = IF ok THEN Append(emails, [to |-> Recipient, cmd |-> jobs[i].cmd,
                                             attachment |-> jobs[i].attachment])
                 ELSE emails
    /\ results' = Append(results,
            IF ok THEN Result(jobs[i], TRUE, SuccessText(jobs[i].cmd))
            ELSE Result(jobs[i], FALSE, ErrorText))
    /\ jobs' = RemoveAt(jobs, i)
    /\ UNCHANGED <<connVars, now, storeVars, config, cacheVars, callVars, executed, histVars>>

----------------------------------------------------------------------------
(* Conversation cache: group.service.ts and the refreshes of whatsapp.service.ts *)

HasJid(table, jid) == \E i \in 1 .. Len(table) : table[i].jid = jid

\* updated_at within the last 24 hours
needsRefresh(table, jid, t) ==
    ~\E i \in 1 .. Len(table) :
        table[i].jid = jid /\ table[i].updated_at > t - RefreshWindow

\* Variant: INSERT OR REPLACE, which rewrites the whole row.
saveGroupName_Replace(table, groupJid, groupName, t, stored) ==
    IF ~stored THEN table
    ELSE IF HasJid(table, groupJid)
    THEN [i \in 1 .. Len(table) |->
            IF table[i].jid = groupJid
            THEN [jid |-> groupJid, name |-> groupName, profile_picture |-> Null,
                  updated_at |-> t]
            ELSE table[i]]
    ELSE Append(table, [jid |-> groupJid, name |-> groupName,
                        profile_picture |-> Null, updated_at |-> t])

\* INSERT ... ON CONFLICT(group_jid) DO UPDATE SET group_name, updated_at;
\* a store error is caught and logged.
saveGroupName(table, groupJid, groupName, t, stored) ==
    IF ~stored THEN table
    ELSE IF HasJid(table, groupJid)
    THEN [i \in 1 .. Len(table) |->
            IF table[i].jid = groupJid
            THEN [table[i] EXCEPT !.name = groupName, !.updated_at = t]
            ELSE table[i]]
    ELSE Append(table, [jid |-> groupJid, name |-> groupName,
                        profile_picture |-> Null, updated_at |-> t])

\* updateGroupProfilePicture / updateContactProfilePicture: the picture path
\* and updated_at are merged into the entry, every other field is kept.
updateProfilePicture(table, jid, webPath, t) ==
    IF HasJid(table, jid)
    THEN [i \in 1 .. Len(table) |->
            IF table[i].jid = jid
            THEN [table[i] EXCEPT !.profile_picture = webPath, !.updated_at = t]
            ELSE table[i]]
    ELSE Append(table, [jid |-> jid, name |-> Null,
                        profile_picture |-> webPath, updated_at |-> t])

\* jid.replace(/[@.:]/g, '_') under /media/profiles/profile_ ... .jpg
ProfilePath(jid) ==
    <<"/media/profiles/profile_">>
    \o [i \in 1 .. Len(jid) |-> IF jid[i] = "@" THEN "_" ELSE jid[i]]
    \o <<".jpg">>

Refresh(jid, kind) == [jid |-> jid, kind |-> kind]

\* fetchAndCacheProfilePicture(jid) up to its await of profilePictureUrl:
\* the refreshes it leaves suspended.
PictureRefreshStarted(jid, sock, st, groupTable, contactTable, t) ==
    IF sock = 0 \/ st # "connected" THEN EmptyBag
    ELSE IF EndsWith(jid, GroupSuffix) /\ ~needsRefresh(groupTable, jid, t) THEN EmptyBag
    ELSE IF ~EndsWith(jid, GroupSuffix) /\ ~needsRefresh(contactTable, jid, t) THEN EmptyBag
    ELSE SetToBag({Refresh(jid, "picture")})

\* fetchAndCacheGroupName(groupJid) up to its await of groupMetadata
NameRefreshStarted(groupJid, sock, st, groupTable, t) ==
    IF sock = 0 \/ st # "connected" THEN EmptyBag
    ELSE IF ~needsRefresh(groupTable, groupJid, t) THEN EmptyBag
    ELSE SetToBag({Refresh(groupJid, "name")})

\* processMessage lines 400-413: the refresh a message starts
RefreshStarted(env) ==
    LET remoteJid == NormalizeJid(env)
        isGroup == EndsWith(remoteJid, GroupSuffix)
    IN IF isGroup /\ env.participant # <<>>
       THEN NameRefreshStarted(remoteJid, socket, status, groups, now)
       ELSE IF ~isGroup
       THEN PictureRefreshStarted(remoteJid, socket, status, groups, contacts, now)
       ELSE EmptyBag

\* socket.groupMetadata settles: with a subject (saved, then the picture
\* refresh is started), without one, or by throwing (subject empty).
GroupMetadataDone(r, subject, stored) ==
    /\ BagIn(r, refreshes)
    /\ r.kind = "name"
    /\ groups' = IF subject # <<>>
                 THEN saveGroupName(groups, r.jid, subject, now, stored) ELSE groups
    /\ refreshes' = (refreshes (-) SetToBag({r}))
                    (+) (IF subject # <<>>
                         THEN PictureRefreshStarted(r.jid, socket, status, groups',
                                                    contacts, now)
                         ELSE EmptyBag)
    /\ UNCHANGED <<connVars, now, messages, events, errors, config, contacts,
                   callVars, cmdVars, histVars>>

\* socket.profilePictureUrl and the download settle: the picture is written
\* and its path cached, or there is no picture or a step throws (got false).
ProfilePictureDone(r, got) ==
    /\ BagIn(r, refreshes)
    /\ r.kind = "picture"
    /\ refreshes' = refreshes (-) SetToBag({r})
    /\ IF ~got THEN UNCHANGED <<groups, contacts>>
       ELSE IF EndsWith(r.jid, GroupSuffix)
       THEN /\ groups' = updateProfilePicture(groups, r.jid, ProfilePath(r.jid), now)
            /\ contacts' = contacts
       ELSE /\ contacts' = updateProfilePicture(contacts, r.jid, ProfilePath(r.jid), now)
            /\ groups' = groups
    /\ UNCHANGED <<connVars, now, messages, events, errors, config,
                   callVars, cmdVars, histVars>>

\* A day passes.
Sleep ==
    /\ now < Epoch + MaxTicks * RefreshWindow
    /\ now' = now + RefreshWindow
    /\ UNCHANGED <<connVars, storeVars, config, cacheVars, callVars, cmdVars, histVars>>

----------------------------------------------------------------------------
(* Ingestion: processMessage and the handlers that feed it *)

\* History record of one handler call: the envelope and download outcome it
\* was given (or the deleted items), the clock, and what became of it.
NoEnvelope ==
    [remoteJid |-> <<>>, remoteJidAlt |-> <<>>, id |-> <<>>, fromMe |-> FALSE,
     participant |-> <<>>, participantAlt |-> <<>>, pushName |-> <<>>,
     ts |-> [kind |-> "absent", val |-> 0], message |-> Blank]

Handled(op, env, dl, outcome, items) ==
    [op |-> op, env |-> env, dl |-> dl, outcome |-> outcome, items |-> items,
     at |-> now]

ErrorEntry(env, type, mimetype) ==
    [error_type |-> "Error", location |-> "whatsapp.service.ts:downloadMedia",
     messageId |-> env.id, remoteJid |-> env.remoteJid, type |-> type,
     mimetype |-> mimetype]

\* The media type and mime type downloadMedia was called with.
MediaOf(env) ==
    LET m == unwrapMessage(env.message) IN
    CASE HasKey(m, "imageMessage") -> [type |-> "image", mimetype |-> Or(m.mimetype, <<"image/jpeg">>)]
      [] HasKey(m, "videoMessage") -> [type |-> "video", mimetype |-> Or(m.mimetype, <<"video/mp4">>)]
      [] HasKey(m, "audioMessage") -> [type |-> IF m.ptt THEN "voice" ELSE "audio",
                                       mimetype |-> Or(m.mimetype, <<"audio/ogg">>)]
      [] HasKey(m, "documentMessage") -> [type |-> "document",
                                          mimetype |-> Or(m.mimetype, <<"application/octet-stream">>)]
      [] OTHER -> [type |-> "sticker", mimetype |-> Or(m.mimetype, <<"image/webp">>)]

MessageParams(env, extracted, t) ==
    LET remoteJid == NormalizeJid(env)
        isGroup == EndsWith(remoteJid, GroupSuffix)
    IN  [remote_jid |-> remoteJid,
         sender_name |-> env.pushName,
         participant_jid |-> IF isGroup /\ env.participant # <<>>
                             THEN Or(env.participantAlt, env.participant)
                             ELSE <<>>,
         message_id |-> IF env.id # <<>> THEN env.id ELSE <<ToString(DateNow(t))>>,
         message_type |-> extracted.type,
         content |-> extracted.content,
         timestamp |-> NormalizeTimestamp(env.ts, t),
         is_group |-> isGroup,
         is_from_me |-> env.fromMe,
         media_path |-> extracted.mediaPath,
         media_mimetype |-> extracted.mimetype]

\* processMessage(msg) up to the first suspension of a command handler.
processMessage(env, dl) ==
    LET remoteJid == NormalizeJid(env)
        isGroup == EndsWith(remoteJid, GroupSuffix)
        extracted == extractAndDownloadContent(env, dl, socket, now)
        params == MessageParams(env, extracted, now)
        inserted == createMessage(messages, params, now)
        messageAgeSeconds == now - params.timestamp
        cmd == IF extracted.type = "text" /\ ~isGroup
                  /\ isRecentMessage(messageAgeSeconds)
               THEN executeCommand(extracted.content, remoteJid)
               ELSE "none"
        c == [message_id |-> params.message_id, cmd |-> cmd, jid |-> remoteJid,
              table |-> inserted.table]
    IN
    /\ handled < MaxHandled
    /\ handled' = handled + 1
    /\ IF (remoteJid = StatusBroadcast /\ ~storeStatusMessages)
          \/ extracted.type = "skip"
       THEN /\ last' = Handled("processMessage", env, dl, "dropped", <<>>)
            /\ refreshes' = IF remoteJid = StatusBroadcast /\ ~storeStatusMessages
                            THEN refreshes
                            ELSE refreshes (+) RefreshStarted(env)
            /\ UNCHANGED <<connVars, now, storeVars, config, groups, contacts,
                           callVars, cmdVars, rejected>>
       ELSE
         /\ last' = Handled("processMessage", env, dl,
                            IF inserted.saved THEN "saved" ELSE "duplicate", <<>>)
         /\ errors' = IF extracted.logged
                      THEN Append(errors, ErrorEntry(env, MediaOf(env).type,
                                                     MediaOf(env).mimetype))
                      ELSE errors
         /\ messages' = inserted.table
         /\ rejected' = (rejected \/ inserted.threw)
         /\ refreshes' = refreshes (+) RefreshStarted(env)
         /\ UNCHANGED <<now, events, config, groups, contacts, callVars>>
         /\ IF inserted.threw \/ cmd = "none"
            THEN UNCHANGED <<connVars, cmdVars>>
            ELSE /\ Len(executed) < MaxExec
                 /\ executed' = Append(executed,
                        [message_id |-> params.message_id, cmd |-> cmd,
                         from |-> remoteJid, timestamp |-> params.timestamp,
                         at |-> now])
                 /\ HandlerStart(c)

----------------------------------------------------------------------------
(* Error log: error.service.ts over database/connection.ts *)

\* What the store does during one call: nothing wrong; getDatabase() cannot
\* open the file (no handle is held and mkdirSync or new Database throws);
\* prepare or run throws; the row is written but reading it back throws.
StoreFaults == {"none", "open", "prepare", "run", "read"}

\* params.context ? (string ? context : JSON.stringify(context)) : null;
\* JSON.stringify throws on a circular object.
ContextStr(context) ==
    IF context.kind = "absent" THEN [threw |-> FALSE, val |-> Null]
    ELSE IF context.kind = "string"
    THEN [threw |-> FALSE, val |-> IF context.val = <<>> THEN Null ELSE context.val]
    ELSE IF context.kind = "circular" THEN [threw |-> TRUE, val |-> Null]
    ELSE [threw |-> FALSE, val |-> <<"{">> \o context.val \o <<"}">>]

ErrorRow(table, params, contextStr, t) ==
    [id |-> Len(table) + 1,
     error_type |-> params.error_type,
     error_message |-> params.error_message,
     error_stack |-> OrNull(params.error_stack),
     location |-> OrNull(params.location),
     context |-> contextStr,
     created_at |-> t]

\* logError: getDatabase() is called before the try block, everything else
\* inside it.
logError(table, params, fault, t) ==
    LET contextStr == ContextStr(params.context)
        row == ErrorRow(table, params, contextStr.val, t)
    IN
    IF fault = "open"
    THEN [table |-> table, outcome |-> "raised", record |-> Null]
    ELSE IF contextStr.threw \/ fault \in {"prepare", "run"}
    THEN [table |-> table, outcome |-> "null", record |-> Null]
    ELSE IF fault = "read"
    THEN [table |-> Append(table, row), outcome |-> "null", record |-> Null]
    ELSE [table |-> Append(table, row), outcome |-> "record", record |-> row]

\* error instanceof Error ? error : new Error(String(error))
ErrorObj(error) ==
    IF error.isError THEN error
    ELSE [isError |-> TRUE, name |-> <<"Error">>, message |-> error.message,
          stack |-> <<"Error", ":", " ">> \o error.message]

logFromException(table, error, location, context, fault, t) ==
    LET errorObj == ErrorObj(error) IN
    logError(table,
             [error_type |-> Or(errorObj.name, <<"Error">>),
              error_message |-> errorObj.message,
              error_stack |-> errorObj.stack,
              location |-> location,
              context |-> context],
             fault, t)

\* One call of an error-log writer, with what became of it
ErrorLogged(op, r, fault) ==
    /\ handled' = handled + 1
    /\ errors' = r.table
    /\ rejected' = (rejected \/ r.outcome = "raised")
    /\ last' = Handled(op, NoEnvelope, fault, r.outcome, <<>>)
    /\ UNCHANGED <<connVars, now, messages, events, config, cacheVars, callVars, cmdVars>>

LogError(params, fault) ==
    /\ handled < MaxHandled
    /\ ErrorLogged("logError", logError(errors, params, fault, now), fault)

LogFromException(error, location, context, fault) ==
    /\ handled < MaxHandled
    /\ ErrorLogged("logFromException",
                   logFromException(errors, error, location, context, fault, now), fault)

\* One field passing through escapeCsvField on its way into a CSV line
EscapeField(field) ==
    /\ last' = [Handled("escapeCsvField", NoEnvelope, "ok", "none", escapeCsvField(field))
                  EXCEPT !.env = field]
    /\ UNCHANGED <<connVars, now, storeVars, config, cacheVars, callVars, cmdVars, rejected, handled>>

----------------------------------------------------------------------------
(* Paginated query: MessageController.getMessages over MessageService.getMessages *)

DefaultLimit == 50
LimitCap == 100

Reverse(seq) == [i \in 1 .. Len(seq) |-> seq[Len(seq) + 1 - i]]

\* ORDER BY timestamp ASC | DESC
OrderByTimestamp(rows, sqlOrder) ==
    IF sqlOrder = "DESC" THEN OrderByTimestampDesc(rows)
    ELSE Reverse(OrderByTimestampDesc(rows))

\* content LIKE '%searchText%': case-insensitive, never true of a NULL content
Like(content, searchText) ==
    content # Null /\ Includes(ToLowerCase(content), ToLowerCase(searchText))

\* The controller's reading of req.query; an absent number is undefined and
\* anything but 'asc' or 'desc' is no sort order.
ParseFilter(query) ==
    [from |-> IF query.from.kind = "absent" THEN 0 ELSE query.from.val,
     to |-> IF query.to.kind = "absent" THEN 0 ELSE query.to.val,
     page |-> IF query.page.kind = "absent" THEN 1 ELSE query.page.val,
     limit |-> IF query.limit.kind = "absent" THEN DefaultLimit
               ELSE Min(query.limit.val, LimitCap),
     remoteJid |-> query.remoteJid,
     searchText |-> query.search,
     sortOrder |-> IF query.sortOrder \in {<<"asc">>, <<"desc">>}
                   THEN query.sortOrder ELSE <<>>]

\* Variant: newest first whenever no sort order is given.
EffectiveSortOrder_NewestFirst(filter) == Or(filter.sortOrder, <<"desc">>)

\* sortOrder || (isConversationView ? 'asc' : 'desc')
EffectiveSortOrder(filter) ==
    LET isConversationView == filter.remoteJid # <<>> /\ filter.searchText = <<>>
    IN Or(filter.sortOrder, IF isConversationView THEN <<"asc">> ELSE <<"desc">>)

\* MessageService.getMessages: the WHERE clause, the count, the ordered page
getMessages(table, filter) ==
    LET offset == (filter.page - 1) * filter.limit
        Where(row) ==
            /\ filter.remoteJid # <<>> => row.remote_jid = filter.remoteJid
            /\ filter.from # 0 => row.timestamp >= filter.from
            /\ filter.to # 0 => row.timestamp <= filter.to
            /\ filter.searchText # <<>> => Like(row.content, filter.searchText)
        selected == SelectSeq(table, Where)
        effectiveSortOrder == EffectiveSortOrder(filter)
        sqlOrder == IF effectiveSortOrder = <<"asc">> THEN "ASC" ELSE "DESC"
        ordered == OrderByTimestamp(selected, sqlOrder)
    IN [messages |-> SubSeq(ordered, offset + 1, Min(offset + filter.limit, Len(ordered))),
        total |-> Len(selected),
        sortOrder |-> effectiveSortOrder]

\* GET /api/messages: the response is recorded with the query it answers.
GetMessages(query) ==
    LET result == getMessages(messages, ParseFilter(query)) IN
    /\ last' = [Handled("getMessages", NoEnvelope, "ok", result.sortOrder, result.messages)
                  EXCEPT !.env = query]
    /\ UNCHANGED <<connVars, now, storeVars, config, cacheVars, callVars, cmdVars, rejected, handled>>

\* messages.upsert handler, for one message of the batch
MessagesUpsert(s, env, type, dl) ==
    /\ s \in opened
    /\ LET contentType == getContentType(env.message) IN
       IF type \notin {"notify", "append"}
       THEN UNCHANGED vars
       ELSE IF contentType \in {"", "reactionMessage", "senderKeyDistributionMessage",
                                "messageContextInfo", "protocolMessage"}
       THEN UNCHANGED vars
       ELSE processMessage(env, dl)

\* The id the session gives a message it sent as a reply to message_id.
ReplyId(message_id) == <<"3EB0">> \o message_id

\* messages.upsert handler on the reply that sendTextMessage handed to the
\* session for results[i]: it comes back as an outbound text message of the
\* conversation it was sent to.
ReplyEcho(s, i, type) ==
    /\ i \in 1 .. Len(results)
    /\ results[i].sent
    /\ MessagesUpsert(s, [remoteJid |-> results[i].to, remoteJidAlt |-> <<>>,
                          id |-> ReplyId(results[i].message_id), fromMe |-> TRUE,
                          participant |-> <<>>, participantAlt |-> <<>>,
                          pushName |-> <<>>, ts |-> [kind |-> "number", val |-> now],
                          message |-> [Blank EXCEPT !.keys = <<"conversation">>,
                                                    !.conversation = results[i].message]],
                      type, "ok")

\* messaging-history.set handler, for one message of the batch
MessagingHistorySet(s, env, dl) ==
    /\ s \in opened
    /\ LET contentType == getContentType(env.message) IN
       IF contentType \in {"", "protocolMessage", "reactionMessage",
                           "senderKeyDistributionMessage"}
       THEN UNCHANGED vars
       ELSE processMessage(env, dl)

Tick ==
    /\ now < Epoch + MaxTicks * FreshnessWindow
    /\ now' = now + FreshnessWindow
    /\ UNCHANGED <<connVars, storeVars, config, cacheVars, callVars, cmdVars, histVars>>

----------------------------------------------------------------------------
(* Event log: EventService, and the deletion handlers of whatsapp.service.ts *)

DigitSyms == {"57", "300", "44", "7", "9", "120"}
IsDigits(s) == s # <<>> /\ \A i \in 1 .. Len(s) : s[i] \in DigitSyms   \* /^\d+$/

\* getContactInfoFromMessages(remoteJid)
getContactInfoFromMessages(table, remoteJid) ==
    LET received == {i \in 1 .. Len(table) :
                        table[i].remote_jid = remoteJid /\ ~table[i].is_from_me}
        any == {i \in 1 .. Len(table) : table[i].remote_jid = remoteJid}
    IN  IF received # {}
        THEN LET i == CHOOSE k \in received :
                          \A j \in received : table[j].timestamp <= table[k].timestamp
             IN [contact_name |-> table[i].sender_name,
                 contact_phone |-> IF table[i].participant_jid # Null
                                   THEN BeforeAt(table[i].participant_jid)
                                   ELSE Null]
        ELSE IF any # {}
        THEN [contact_name |-> Null,
              contact_phone |-> IF ~EndsWith(remoteJid, LidSuffix)
                                   /\ IsDigits(BeforeAt(remoteJid))
                                THEN BeforeAt(remoteJid) ELSE Null]
        ELSE [contact_name |-> Null, contact_phone |-> Null]

\* logEvent(params): one INSERT into events
logEvent(table, event_type, remote_jid, message_id, details) ==
    Append(table, [id |-> Len(table) + 1, event_type |-> event_type,
                   remote_jid |-> OrNull(remote_jid),
                   message_id |-> OrNull(message_id), details |-> details])

logMessageDelete(table, key) ==
    logEvent(table, "message_delete", key.remoteJid, key.id,
             [fromMe |-> key.fromMe, contact_name |-> Null, contact_phone |-> Null])

logChatDelete(table, remoteJid) ==
    LET info == getContactInfoFromMessages(messages, remoteJid) IN
    logEvent(table, "chat_delete", remoteJid, <<>>,
             [fromMe |-> FALSE, contact_name |-> info.contact_name,
              contact_phone |-> info.contact_phone])

logAllMessagesDelete(table, remoteJid) ==
    LET info == getContactInfoFromMessages(messages, remoteJid) IN
    logEvent(table, "chat_clear", remoteJid, <<>>,
             [fromMe |-> FALSE, contact_name |-> info.contact_name,
              contact_phone |-> info.contact_phone])

\* for (const key of data.keys) eventService.logMessageDelete(...)
RECURSIVE LogMessageDeletes(_, _)
LogMessageDeletes(table, keys) ==
    IF keys = <<>> THEN table
    ELSE LogMessageDeletes(logMessageDelete(table, Head(keys)), Tail(keys))

\* for (const chatId of chatIds) eventService.logChatDelete(chatId)
RECURSIVE LogChatDeletes(_, _)
LogChatDeletes(table, chatIds) ==
    IF chatIds = <<>> THEN table
    ELSE LogChatDeletes(logChatDelete(table, Head(chatIds)), Tail(chatIds))

\* messages.delete handler with { jid, all: true }
MessagesDeleteAll(s, jid) ==
    /\ s \in opened
    /\ handled < MaxHandled
    /\ handled' = handled + 1
    /\ last' = Handled("chat_clear", NoEnvelope, "ok", "logged", <<jid>>)
    /\ events' = logAllMessagesDelete(events, jid)
    /\ UNCHANGED <<connVars, now, messages, errors, config, cacheVars, callVars, cmdVars, rejected>>

\* Variant: the handler also deletes the rows of the deleted keys.
MessagesDeleteKeys_Purge(s, keys) ==
    /\ s \in opened
    /\ handled < MaxHandled
    /\ handled' = handled + 1
    /\ last' = Handled("message_delete", NoEnvelope, "ok", "logged",
                       [i \in 1 .. Len(keys) |-> keys[i].id])
    /\ events' = LogMessageDeletes(events, keys)
    /\ messages' = SelectSeq(messages,
                             LAMBDA r : \A i \in 1 .. Len(keys) : keys[i].id # r.message_id)
    /\ UNCHANGED <<connVars, now, errors, config, cacheVars, callVars, cmdVars, rejected>>

\* messages.delete handler with { keys }
MessagesDeleteKeys(s, keys) ==
    /\ s \in opened
    /\ handled < MaxHandled
    /\ handled' = handled + 1
    /\ last' = Handled("message_delete", NoEnvelope, "ok", "logged", [i \in 1 .. Len(keys) |-> keys[i].id])
    /\ events' = LogMessageDeletes(events, keys)
    /\ UNCHANGED <<connVars, now, messages, errors, config, cacheVars, callVars, cmdVars, rejected>>

\* chats.delete handler
ChatsDelete(s, chatIds) ==
    /\ s \in opened
    /\ handled < MaxHandled
    /\ handled' = handled + 1
    /\ last' = Handled("chat_delete", NoEnvelope, "ok", "logged", chatIds)
    /\ events' = LogChatDeletes(events, chatIds)
    /\ UNCHANGED <<connVars, now, messages, errors, config, cacheVars, callVars, cmdVars, rejected>>

----------------------------------------------------------------------------
(* Call log: processCall of whatsapp.service.ts *)

\* Map.has, Map.get, Map.set and Map.delete over a table of entries keyed by id
HasCall(table, id) == \E i \in 1 .. Len(table) : table[i].id = id

CallOf(table, id) == table[CHOOSE i \in 1 .. Len(table) : table[i].id = id]

SetCall(table, id, startTime) ==
    IF HasCall(table, id)
    THEN [i \in 1 .. Len(table) |->
            IF table[i].id = id THEN [id |-> id, startTime |-> startTime] ELSE table[i]]
    ELSE Append(table, [id |-> id, startTime |-> startTime])

DeleteCall(table, id) ==
    LET Keep(entry) == entry.id # id IN SelectSeq(table, Keep)

\* minutes > 0 ? `${minutes}m ${seconds}s` : `${seconds}s`
durationStr(durationSeconds) ==
    LET minutes == durationSeconds \div 60
        seconds == durationSeconds % 60
    IN IF minutes > 0
       THEN <<ToString(minutes), "m ", ToString(seconds), "s">>
       ELSE <<ToString(seconds), "s">>

callTypeLabel(call) == IF call.isVideo THEN "Video call" ELSE "Call"

\* `[${callTypeLabel} - ${what}]`
CallContent(call, what) == <<"[", callTypeLabel(call), " - ">> \o what \o <<"]">>

CallParams(call, suffix, content, timestamp) ==
    [remote_jid |-> call.from, sender_name |-> <<>>, participant_jid |-> <<>>,
     message_id |-> <<"call_", call.id, suffix>>,
     message_type |-> IF call.isVideo THEN "video_call" ELSE "call",
     content |-> content, timestamp |-> timestamp,
     is_group |-> call.isGroup, is_from_me |-> FALSE,
     media_path |-> <<>>, media_mimetype |-> <<>>]

\* The content of the end row, from the terminal status and the call table.
EndContent(call, table, timestamp) ==
    IF call.status = "timeout" THEN CallContent(call, <<"Missed">>)
    ELSE IF call.status = "reject" THEN CallContent(call, <<"Rejected">>)
    ELSE IF HasCall(table, call.id)
    THEN CallContent(call, durationStr(timestamp - CallOf(table, call.id).startTime))
    ELSE CallContent(call, <<"Ended">>)

\* 'call' handler, for one call of the batch: processCall(call)
ProcessCall(s, call) ==
    /\ s \in opened
    /\ LET timestamp == now IN
       IF call.status \in {"offer", "ringing"}
       THEN LET inserted == createMessage(messages,
                    CallParams(call, "_start", CallContent(call, <<"Incoming">>), timestamp),
                    now)
            IN /\ ongoingCalls' = SetCall(ongoingCalls, call.id, timestamp)
               /\ observed' = SetCall(observed, call.id, timestamp)
               /\ messages' = inserted.table
               /\ last' = Handled("call", NoEnvelope, "ok",
                                  IF inserted.saved THEN "saved" ELSE "duplicate", <<call>>)
       ELSE IF call.status = "accept"
       THEN /\ ongoingCalls' = IF HasCall(ongoingCalls, call.id)
                               THEN SetCall(ongoingCalls, call.id, timestamp)
                               ELSE ongoingCalls
            /\ observed' = SetCall(observed, call.id, timestamp)
            /\ messages' = messages
            /\ last' = Handled("call", NoEnvelope, "ok", "tracked", <<call>>)
       ELSE IF call.status \in {"timeout", "reject", "terminate"}
       THEN LET inserted == createMessage(messages,
                    CallParams(call, "_end", EndContent(call, ongoingCalls, timestamp),
                               timestamp),
                    now)
            IN /\ ongoingCalls' = DeleteCall(ongoingCalls, call.id)
               /\ observed' = observed
               /\ messages' = inserted.table
               /\ last' = Handled("call", NoEnvelope, "ok",
                                  IF inserted.saved THEN "saved" ELSE "duplicate", <<call>>)
       ELSE /\ last' = Handled("call", NoEnvelope, "ok", "ignored", <<call>>)
            /\ UNCHANGED <<messages, callVars>>
    /\ UNCHANGED <<connVars, now, events, errors, config, cacheVars, cmdVars, rejected, handled>>

----------------------------------------------------------------------------
InitConn ==
    /\ started = FALSE
    /\ status = "disconnected"
    /\ qrCode = 0
    /\ socket = 0
    /\ live = {}
    /\ opened = {}
    /\ reconnectAttempts = 0
    /\ timers = EmptyBag
    /\ pendingConnects = 0
    /\ loggedOut = FALSE
    /\ stopped = FALSE
    /\ reconnectDue = FALSE
    /\ credentials = FALSE
    /\ remoteLogouts = 0

\* Configuration (config.commands.allowedNumbers, the email service created
\* by createEmailService(), config.email.reportTo); EMAIL_FILTER_NUMBERS is
\* empty unless set.
Config(allowedNumbers, emailService, reportTo) ==
    [allowedNumbers |-> allowedNumbers, emailService |-> emailService,
     reportTo |-> reportTo, filterNumbers |-> <<>>]

DefaultConfig == Config(<< <<"57", "300">> >>, TRUE, TRUE)

Configs == {DefaultConfig,
            Config(<< <<"300">> >>, FALSE, TRUE),
            Config(<< <<"57", "300">> >>, TRUE, FALSE),
            Config(<<>>, TRUE, TRUE)}

InitStore ==
    /\ now = Epoch
    /\ messages = <<>>
    /\ events = <<>>
    /\ errors = <<>>
    /\ groups = <<>>
    /\ contacts = <<>>
    /\ refreshes = EmptyBag
    /\ ongoingCalls = <<>>
    /\ observed = <<>>
    /\ jobs = <<>>
    /\ executed = <<>>
    /\ results = <<>>
    /\ emails = <<>>
    /\ rejected = FALSE
    /\ handled = 0
    /\ last = Handled("none", NoEnvelope, "ok", "none", <<>>)

Init ==
    /\ InitConn
    /\ InitStore
    /\ config = DefaultConfig

InitAnyConfig ==
    /\ InitConn
    /\ InitStore
    /\ config \in Configs

\* config.dailyReport.filterNumbers with and without supervised numbers
FilterConfigs ==
    {[DefaultConfig EXCEPT !.filterNumbers = f] : f \in {<<>>, << <<"44", "7">> >>}}

InitAnyFilter ==
    /\ InitConn
    /\ InitStore
    /\ config \in FilterConfigs

----------------------------------------------------------------------------
(* Inputs: the envelopes the protocol layer delivers *)

Alice == <<"57", "300", "@", "s.whatsapp.net">>
Bob == <<"44", "7", "@", "s.whatsapp.net">>
AliceLid == <<"9", "@", "lid">>
BareLid == <<"@", "lid">>
Family == <<"120", "@", "g.us">>

M1 == <<"m1">>
M2 == <<"m2">>

At(v) == [kind |-> "number", val |-> v]
Absent == [kind |-> "absent", val |-> 0]

Envelope(jid, alt, id, fromMe, ts, message) ==
    [remoteJid |-> jid, remoteJidAlt |-> alt, id |-> id, fromMe |-> fromMe,
     participant |-> IF EndsWith(jid, GroupSuffix) THEN AliceLid ELSE <<>>,
     participantAlt |-> IF EndsWith(jid, GroupSuffix) THEN Bob ELSE <<>>,
     pushName |-> IF fromMe THEN <<>> ELSE <<"Ana">>,
     ts |-> ts, message |-> message]

Keys(ks) == [Blank EXCEPT !.keys = ks]
Text(t) == [Blank EXCEPT !.keys = <<"conversation">>, !.conversation = t]
ExtText(t) == [Blank EXCEPT !.keys = <<"extendedTextMessage">>, !.text = t]
Image(caption, mimetype) ==
    [Blank EXCEPT !.keys = <<"imageMessage">>, !.caption = caption, !.mimetype = mimetype]
Video(caption) == [Blank EXCEPT !.keys = <<"videoMessage">>, !.caption = caption]
Audio(ptt) == [Blank EXCEPT !.keys = <<"audioMessage">>, !.ptt = ptt,
                            !.mimetype = <<"audio/ogg">>]
Document(fileName, caption) ==
    [Blank EXCEPT !.keys = <<"documentMessage">>, !.fileName = fileName,
                  !.caption = caption, !.mimetype = <<"application/pdf">>]
Sticker == Keys(<<"stickerMessage">>)
Labelled(key, label) == [Blank EXCEPT !.keys = <<key>>, !.label = label]
Wrapped(w, m) == [Blank EXCEPT !.keys = <<w>>, !.wrapper = w, !.inner = m]

MediaPayloads ==
    {Image(<<"lunch">>, <<"image/jpeg">>), Video(<<>>), Audio(TRUE), Audio(FALSE),
     Document(<<"a.pdf">>, <<>>), Sticker,
     Wrapped("documentWithCaptionMessage", Document(<<"b.pdf">>, <<"see">>))}

OtherPayloads ==
    {Text(<<"hello">>), ExtText(<<"hi", " ", "there">>),
     Labelled("contactMessage", <<"Bo">>),
     [Keys(<<"contactsArrayMessage">>) EXCEPT !.count = 2],
     [Keys(<<"locationMessage">>) EXCEPT !.lat = "4.6", !.lon = "-74.1"],
     Labelled("pollCreationMessage", <<>>),
     Labelled("buttonsResponseMessage", <<"Yes">>),
     [Text(<<"hey">>) EXCEPT !.keys = <<"senderKeyDistributionMessage", "conversation",
                                        "messageContextInfo">>],
     Wrapped("ephemeralMessage", Text(<<"gone">>))}

UnknownPayloads ==
    {Keys(<<"pollUpdateMessage">>),
     Keys(<<"messageContextInfo", "pollUpdateMessage">>),
     Keys(<<"conversation">>)}

MetadataPayloads ==
    {Keys(<<>>), Keys(<<"messageContextInfo">>),
     Keys(<<"senderKeyDistributionMessage">>),
     Keys(<<"reactionMessage">>), Keys(<<"protocolMessage">>),
     Wrapped("ephemeralMessage", Keys(<<"reactionMessage">>)),
     Wrapped("viewOnceMessage", Keys(<<"messageContextInfo">>))}

IngestEnvelopes ==
    {Envelope(Alice, <<>>, M1, FALSE, At(Epoch), p) :
        p \in MediaPayloads \cup OtherPayloads \cup UnknownPayloads \cup MetadataPayloads}
    \cup {Envelope(Alice, <<>>, M2, TRUE, At(Epoch - 5), Text(<<"hello">>)),
          Envelope(Family, <<>>, M2, FALSE, Absent, Image(<<>>, <<"image/png">>)),
          Envelope(AliceLid, Alice, M2, FALSE, At(Epoch), Text(<<"hello">>)),
          Envelope(AliceLid, <<>>, M2, FALSE, At(Epoch), Text(<<"hello">>)),
          Envelope(StatusBroadcast, <<>>, M2, FALSE, At(Epoch), Image(<<>>, <<>>)),
          Envelope(Bob, <<>>, <<>>, FALSE, At(Epoch), Text(<<"hello">>))}

\* Text messages addressed to the command interpreter
CommandTexts ==
    {<<"help">>, <<"qr">>, <<"state">>, <<"hello">>,
     <<" ", "/", "HELP", " ", "x">>}

CommandEnvelopes ==
    {Envelope(j, <<>>, M1, FALSE, At(Epoch), Text(<<"help">>)) :
        j \in {Bob, Family}}
    \cup {Envelope(Alice, <<>>, M1, FALSE, At(Epoch), Text(t)) : t \in CommandTexts}
    \cup {Envelope(Alice, <<>>, M1, TRUE, At(Epoch), Text(<<"help">>))}
    \cup {Envelope(Alice, <<>>, M2, FALSE, ts, Text(<<"state">>)) :
            ts \in {At(Epoch - 59), At(Epoch - 60), At(Epoch - 61), Absent}}
    \cup {Envelope(AliceLid, Alice, M2, FALSE, At(Epoch), Text(<<"help">>))}

\* The help and qr commands from every kind of sender identity
AuthEnvelopes ==
    {Envelope(j, <<>>, M1, FALSE, At(Epoch), Text(t)) :
        j \in {Alice, Bob, Family, BareLid, <<>>}, t \in {<<"help">>, <<"qr">>}}
    \cup {Envelope(AliceLid, Alice, M2, FALSE, At(Epoch), Text(<<"help">>))}

\* Text messages under every representation of messageTimestamp
Timestamps ==
    {Absent, At(Epoch - 5), At(0), At(-5),
     [kind |-> "long", val |-> Epoch - 5], [kind |-> "long", val |-> 0],
     [kind |-> "long", val |-> -5],
     [kind |-> "string", val |-> Epoch - 5], [kind |-> "string", val |-> 0],
     [kind |-> "string", val |-> -5], [kind |-> "nan", val |-> 0]}

TimestampEnvelopes ==
    {Envelope(Bob, <<>>, id, FALSE, ts, Text(<<"hello">>)) :
        id \in {M1, M2}, ts \in Timestamps}

\* Every command from the allow-listed number, and one from another
MailEnvelopes ==
    {Envelope(Alice, <<>>, id, FALSE, At(Epoch), Text(t)) :
        id \in {M1, M2}, t \in {<<"help">>, <<"qr">>, <<"state">>, <<"csv">>}}
    \cup {Envelope(Bob, <<>>, M2, FALSE, At(Epoch), Text(<<"help">>))}

\* Messages of the current and of the previous day, and the csv command
CsvEnvelopes ==
    {Envelope(j, <<>>, M2, FALSE, At(ts), Text(<<"hello">>)) :
        j \in {Alice, Bob}, ts \in {Epoch - 5, Epoch - DayLength}}
    \cup {Envelope(Alice, <<>>, M1, FALSE, At(Epoch), Text(<<"csv">>))}

\* Inputs of the error log
Contexts ==
    {[kind |-> "absent", val |-> <<>>], [kind |-> "string", val |-> <<"ctx">>],
     [kind |-> "string", val |-> <<>>], [kind |-> "object", val |-> <<"messageId">>],
     [kind |-> "circular", val |-> <<>>]}

ErrorParams ==
    {[error_type |-> <<"ConnectionError">>, error_message |-> <<"boom">>,
      error_stack |-> stack, location |-> <<"whatsapp.service.ts">>, context |-> c] :
        stack \in {<<>>, <<"at", " ", "x">>}, c \in Contexts}

Exceptions ==
    {[isError |-> TRUE, name |-> <<"TypeError">>, message |-> <<"boom">>,
      stack |-> <<"at", " ", "x">>],
     [isError |-> TRUE, name |-> <<>>, message |-> <<>>, stack |-> <<>>],
     [isError |-> FALSE, name |-> <<>>, message |-> <<"oops">>, stack |-> <<>>]}

\* Stored messages of two chats at two times, and the queries over them
QueryEnvelopes ==
    {Envelope(Alice, <<>>, id, FALSE, At(ts), Text(<<"hello">>)) :
        id \in {M1, M2}, ts \in {Epoch - 10, Epoch - 5}}
    \cup {Envelope(Alice, <<>>, M2, FALSE, At(Epoch - 5), Text(<<"bye">>)),
          Envelope(Bob, <<>>, M2, FALSE, At(Epoch - 10), Text(<<"hello">>))}

Queries ==
    {[from |-> from, to |-> Absent, page |-> page, limit |-> limit,
      remoteJid |-> j, search |-> t, sortOrder |-> o] :
        from \in {Absent, At(Epoch - 5)}, page \in {Absent, At(2)},
        limit \in {Absent, At(1), At(LimitCap + 1)},
        j \in {<<>>, Alice}, t \in {<<>>, <<"HELLO">>},
        o \in {<<>>, <<"asc">>, <<"desc">>, <<"ASC">>}}

\* Field values of up to MaxLen characters
FieldChars == {"a", " ", Comma, Quote, LineFeed, CarriageReturn}

FieldsOfLength(n) == [1 .. n -> FieldChars]

Fields == UNION {FieldsOfLength(n) : n \in 0 .. MaxLen}

\* Messages of a group and of a direct chat, and the names a group may bear
CacheEnvelopes ==
    {Envelope(j, <<>>, id, FALSE, At(Epoch), Text(<<"hello">>)) :
        j \in {Family, Alice}, id \in {M1, M2}}

Subjects == {<<>>, <<"Familia">>, <<"Family">>}

CoreEnvelopes ==
    {Envelope(Alice, <<>>, M1, FALSE, Absent, Text(t)) :
        t \in {<<"help">>, <<"qr">>, <<"state">>}}

DownloadOutcomes == {"ok", "empty", "throws"}
MediaKeys == {"imageMessage", "videoMessage", "audioMessage", "documentMessage",
              "stickerMessage"}
\* the outcomes of the download an envelope can cause: one when it has no media
Downloads(env) ==
    IF \E k \in MediaKeys : HasKey(unwrapMessage(env.message), k)
    THEN DownloadOutcomes ELSE {"ok"}
UpsertTypes == {"notify", "append", "prepend"}

DeleteKeys == {[remoteJid |-> Alice, id |-> M1, fromMe |-> FALSE],
               [remoteJid |-> <<>>, id |-> <<>>, fromMe |-> TRUE]}
DeleteBatches == {<<k>> : k \in DeleteKeys}
                    \cup {<<k1, k2>> : k1 \in DeleteKeys, k2 \in DeleteKeys}
ChatBatches == {<<Alice>>, <<AliceLid>>, <<Family, Alice>>}

----------------------------------------------------------------------------
(* Specifications *)

TimerDelays == {Min(BackoffStep * k, BackoffCap) : k \in 1 .. maxReconnectAttempts}
                  \cup {CooldownDelay}

QrEventAny == \E s \in SocketIds : QrEvent(s)
OpenEventAny == \E s \in SocketIds : OpenEvent(s)
CredsUpdateAny == \E s \in SocketIds : CredsUpdate(s)
CloseEventAny == \E s \in SocketIds, isLoggedOut \in BOOLEAN : CloseEvent(s, isLoggedOut)
TimerFireAny == \E d \in TimerDelays : TimerFire(d)
ResetSessionAny == \E emits \in BOOLEAN : ResetSession(emits)
DisconnectAny == \E emits \in BOOLEAN : Disconnect(emits)

Upsert(envelopes) ==
    \E s \in SocketIds, env \in envelopes, type \in UpsertTypes :
        \E dl \in Downloads(env) : MessagesUpsert(s, env, type, dl)

History(envelopes) ==
    \E s \in SocketIds, env \in envelopes :
        \E dl \in Downloads(env) : MessagingHistorySet(s, env, dl)

JobConnectFinishAny == \E i \in 1 .. MaxExec : JobConnectFinish(i)
JobWaitDoneAny == \E i \in 1 .. MaxExec, qrOk \in BOOLEAN : JobWaitDone(i, qrOk)
JobEmailDoneAny == \E i \in 1 .. MaxExec, ok \in BOOLEAN : JobEmailDone(i, ok)

DeleteAll(jids) == \E s \in SocketIds, jid \in jids : MessagesDeleteAll(s, jid)
DeleteKeysOf(batches) == \E s \in SocketIds, keys \in batches : MessagesDeleteKeys(s, keys)
ChatsDeleteOf(batches) == \E s \in SocketIds, chatIds \in batches : ChatsDelete(s, chatIds)

\* The connection manager alone
NextConn ==
    \/ Initialize
    \/ ConnectFinish
    \/ QrEventAny
    \/ OpenEventAny
    \/ CredsUpdateAny
    \/ CloseEventAny
    \/ TimerFireAny
    \/ ResetSessionAny
    \/ DisconnectAny

SpecConn == Init /\ [][NextConn]_vars

\* The connection manager with its timers firing
LiveSpec == SpecConn /\ WF_vars(TimerFireAny)

\* Ingestion of every kind of payload over one session
NextIngest ==
    \/ Initialize
    \/ ConnectFinish
    \/ OpenEventAny
    \/ Upsert(IngestEnvelopes)
    \/ History(IngestEnvelopes)

SpecIngest == Init /\ [][NextIngest]_vars

\* Ingestion of every representation of the message timestamp
NextTime ==
    \/ Initialize
    \/ ConnectFinish
    \/ OpenEventAny
    \/ Upsert(TimestampEnvelopes)
    \/ History(TimestampEnvelopes)
    \/ Tick

SpecTime == Init /\ [][NextTime]_vars

\* Ingestion and deletion events over one session
NextDel ==
    \/ Initialize
    \/ ConnectFinish
    \/ OpenEventAny
    \/ Upsert(CoreEnvelopes)
    \/ DeleteAll({Alice, Family})
    \/ DeleteKeysOf(DeleteBatches)
    \/ ChatsDeleteOf(ChatBatches)

SpecDel == Init /\ [][NextDel]_vars

\* The command interpreter over one session and the one its qr handler opens
NextCmd ==
    \/ Initialize
    \/ ConnectFinish
    \/ QrEventAny
    \/ OpenEventAny
    \/ Upsert(CommandEnvelopes)
    \/ History(CommandEnvelopes)
    \/ JobConnectFinishAny
    \/ JobWaitDoneAny
    \/ JobEmailDoneAny
    \/ Tick

SpecCmd == Init /\ [][NextCmd]_vars

\* The command interpreter under every configuration and sender identity
NextAuth ==
    \/ Initialize
    \/ ConnectFinish
    \/ QrEventAny
    \/ OpenEventAny
    \/ Upsert(AuthEnvelopes)
    \/ JobConnectFinishAny
    \/ JobWaitDoneAny
    \/ JobEmailDoneAny

SpecAuth == InitAnyConfig /\ [][NextAuth]_vars

\* The command handlers under every configuration
NextMail ==
    \/ Initialize
    \/ ConnectFinish
    \/ QrEventAny
    \/ OpenEventAny
    \/ Upsert(MailEnvelopes)
    \/ JobConnectFinishAny
    \/ JobWaitDoneAny
    \/ JobEmailDoneAny

SpecMail == InitAnyConfig /\ [][NextMail]_vars

\* The csv command over messages of two days
NextCsv ==
    \/ Initialize
    \/ ConnectFinish
    \/ OpenEventAny
    \/ Upsert(CsvEnvelopes)
    \/ History(CsvEnvelopes)
    \/ JobEmailDoneAny
    \/ Tick

SpecCsv == InitAnyFilter /\ [][NextCsv]_vars

LogErrorAny == \E params \in ErrorParams, fault \in StoreFaults : LogError(params, fault)

LogFromExceptionAny ==
    \E error \in Exceptions, location \in {<<>>, <<"whatsapp.service.ts">>},
       context \in Contexts, fault \in StoreFaults :
        LogFromException(error, location, context, fault)

\* The error log under every store failure
NextErr ==
    \/ LogErrorAny
    \/ LogFromExceptionAny

SpecErr == Init /\ [][NextErr]_vars

GetMessagesAny == \E query \in Queries : GetMessages(query)

\* The paginated query over stored messages
NextQuery ==
    \/ Initialize
    \/ ConnectFinish
    \/ OpenEventAny
    \/ Upsert(QueryEnvelopes)
    \/ GetMessagesAny

SpecQuery == Init /\ [][NextQuery]_vars

EscapeFieldAny == \E field \in Fields : EscapeField(field)

\* CSV escaping of every field value
NextEscape == EscapeFieldAny

SpecEscape == Init /\ [][NextEscape]_vars

GroupMetadataDoneAny ==
    \E r \in BagToSet(refreshes), subject \in Subjects, stored \in BOOLEAN :
        GroupMetadataDone(r, subject, stored)

ProfilePictureDoneAny ==
    \E r \in BagToSet(refreshes), got \in BOOLEAN : ProfilePictureDone(r, got)

\* The conversation cache under messages of one group and one contact
NextCache ==
    \/ Initialize
    \/ ConnectFinish
    \/ OpenEventAny
    \/ Upsert(CacheEnvelopes)
    \/ GroupMetadataDoneAny
    \/ ProfilePictureDoneAny
    \/ Sleep

SpecCache == Init /\ [][NextCache]_vars

\* Every command from the allow-listed number
EchoEnvelopes ==
    {Envelope(Alice, <<>>, M1, FALSE, At(Epoch), Text(t)) :
        t \in {<<"help">>, <<"qr">>, <<"state">>, <<"csv">>}}

ReplyEchoAny ==
    \E s \in SocketIds, i \in 1 .. MaxExec, type \in {"notify", "append"} :
        ReplyEcho(s, i, type)

\* The command interpreter with its replies coming back through ingestion
NextEcho ==
    \/ Initialize
    \/ ConnectFinish
    \/ QrEventAny
    \/ OpenEventAny
    \/ Upsert(EchoEnvelopes)
    \/ JobConnectFinishAny
    \/ JobWaitDoneAny
    \/ JobEmailDoneAny
    \/ ReplyEchoAny

SpecEcho == InitAnyConfig /\ [][NextEcho]_vars

CallIds == {"c1"}
CallStatuses == {"offer", "ringing", "accept", "timeout", "reject", "terminate",
                 "relaylatency"}
Calls == [id : CallIds, from : {Alice}, status : CallStatuses, isVideo : BOOLEAN,
          isGroup : {FALSE}]

ProcessCallAny == \E s \in SocketIds, call \in Calls : ProcessCall(s, call)

\* The call log over the lifecycle events of one call
NextCall ==
    \/ Initialize
    \/ ConnectFinish
    \/ OpenEventAny
    \/ ProcessCallAny
    \/ Tick

SpecCall == Init /\ [][NextCall]_vars

\* The whole system
Next ==
    \/ NextConn
    \/ Upsert(CoreEnvelopes)
    \/ History(CoreEnvelopes)
    \/ JobConnectFinishAny
    \/ JobWaitDoneAny
    \/ JobEmailDoneAny
    \/ DeleteAll({Alice})
    \/ DeleteKeysOf({<<[remoteJid |-> Alice, id |-> M1, fromMe |-> FALSE]>>})
    \/ ChatsDeleteOf({<<Alice>>})
    \/ ProcessCallAny
    \/ Tick

Spec == Init /\ [][Next]_vars

----------------------------------------------------------------------------
(* Properties *)

IsPrefix(s, t) == Len(s) <= Len(t) /\ SubSeq(t, 1, Len(s)) = s

\* The message id the last processMessage call stored its envelope under.
LastId == IF last.env.id # <<>> THEN last.env.id ELSE <<ToString(DateNow(last.at))>>

LastProcessed == last.op = "processMessage"

\* The next state is the one right after a handler call.
JustHandled == handled' = handled + 1

UniqueMessageIds ==
    \A i, j \in 1 .. Len(messages) :
        messages[i].message_id = messages[j].message_id => i = j

\* C1: the messages table holds exactly one row per ingested message id; an
\* insert whose id is already stored changes no row, adds none, and is not
\* reported as an error.
C1_OneRowPerMessageId ==
    /\ [](UniqueMessageIds /\ ~rejected)
    /\ []((LastProcessed /\ last.outcome # "dropped")
            => Cardinality({i \in 1 .. Len(messages) :
                              messages[i].message_id = LastId}) = 1)
    /\ [][(JustHandled /\ last'.op = "processMessage"
             /\ HasMessageId(messages, IF last'.env.id # <<>> THEN last'.env.id
                                       ELSE <<ToString(DateNow(now))>>))
           => messages' = messages]_vars

C1_Replayed ==
    /\ LastProcessed
    /\ last.outcome = "duplicate"
    /\ handled = 2
    /\ Len(messages) = 1
    /\ last.env.id = M1

\* C2: at most one protocol session is live in every reachable state.
C2_AtMostOneSession == Cardinality(live) <= 1

\* C3: a command whose normalized timestamp is more than 60 seconds behind
\* the clock at processing time is never executed, and every reply, pending
\* handler and email comes from an executed command.
C3_StaleNeverExecuted ==
    /\ \A i \in 1 .. Len(executed) :
          executed[i].at - executed[i].timestamp <= FreshnessWindow
    /\ \A i \in 1 .. Len(results) :
          \E j \in 1 .. Len(executed) : executed[j].message_id = results[i].message_id
    /\ \A i \in 1 .. Len(jobs) :
          \E j \in 1 .. Len(executed) : executed[j].message_id = jobs[i].message_id
    /\ Len(emails) <= Len(executed)

C3_StaleCommandStored ==
    /\ executed = <<>> /\ results = <<>> /\ jobs = <<>> /\ emails = <<>>
    /\ \E i \in 1 .. Len(messages) :
          /\ messages[i].message_type = "text"
          /\ ~messages[i].is_group
          /\ isCommandNumber(messages[i].remote_jid, config.allowedNumbers)
          /\ HandlerOf(CommandName(messages[i].content)) # "none"
          /\ messages[i].created_at - messages[i].timestamp > FreshnessWindow

\* The allow-list as the specification states it: the sender's number, which
\* is not empty, contains or is contained in a configured number.
OnAllowList(identity, allowedNumbers) ==
    LET number == BeforeAt(identity) IN
    /\ number # <<>>
    /\ \E i \in 1 .. Len(allowedNumbers) :
          \/ Includes(number, allowedNumbers[i])
          \/ Includes(allowedNumbers[i], number)

\* C4: every executed command came from a sender on the allow-list; an empty
\* identity is on no allow-list.
C4_OnlyAllowListedExecute ==
    \A i \in 1 .. Len(executed) :
        OnAllowList(executed[i].from, config.allowedNumbers)

\* C5: whenever the transport closes for a reason other than logged-out, a
\* reconnect timer is pending and a new connect attempt is eventually made,
\* also after the attempt budget is used up.
C5_ReconnectEventually ==
    /\ [](reconnectDue => BagCardinality(timers) > 0)
    /\ reconnectDue ~> ~reconnectDue

C5_CooldownScheduled ==
    /\ reconnectDue
    /\ reconnectAttempts = 0
    /\ BagIn(CooldownDelay, timers)

\* C6: once the transport has closed with reason logged-out, the status stays
\* disconnected and no connect attempt starts or completes until resetSession().
C6_LoggedOutIsTerminal ==
    [][(loggedOut /\ loggedOut')
         => (status' = "disconnected" /\ pendingConnects' <= pendingConnects
             /\ live' \subseteq live)]_vars

\* C7: every command result with shouldReply set has been sent as a text
\* message to the conversation the command came from.
C7_EveryReplySent ==
    \A i \in 1 .. Len(results) : results[i].shouldReply => results[i].sent

\* An event the normalizer treats as image, video, audio, document or sticker.
IsMediaEvent(env) ==
    LET m == unwrapMessage(env.message) IN
    /\ m.conversation = <<>>
    /\ ~HasKey(m, "extendedTextMessage")
    /\ \E k \in MediaKeys : HasKey(m, k)

\* The message type and content the specification gives a media event.
MediaType(m) ==
    CASE HasKey(m, "imageMessage") -> "image"
      [] HasKey(m, "videoMessage") -> "video"
      [] HasKey(m, "audioMessage") -> IF m.ptt THEN "voice" ELSE "audio"
      [] HasKey(m, "documentMessage") -> "document"
      [] OTHER -> "sticker"

MediaContent(m) ==
    CASE HasKey(m, "imageMessage") -> Or(m.caption, <<"[Image]">>)
      [] HasKey(m, "videoMessage") -> Or(m.caption, <<"[Video]">>)
      [] HasKey(m, "audioMessage") -> IF m.ptt THEN <<"[Voice note]">> ELSE <<"[Audio]">>
      [] HasKey(m, "documentMessage") -> Or(m.fileName, <<"[Document]">>)
      [] OTHER -> <<"[Sticker]">>

FailedDownload(h) ==
    /\ h.op = "processMessage"
    /\ IsMediaEvent(h.env)
    /\ h.dl # "ok"
    /\ NormalizeJid(h.env) # StatusBroadcast

C8_RowStored ==
    FailedDownload(last) =>
        LET m == unwrapMessage(last.env.message) IN
        /\ ~rejected
        /\ HasMessageId(messages, LastId)
        /\ last.outcome = "saved" =>
              LET r == messages[Len(messages)] IN
              /\ r.message_id = LastId
              /\ r.message_type = MediaType(m)
              /\ r.content = MediaContent(m)
              /\ r.media_path = Null
        /\ last.dl = "throws" =>
              /\ Len(errors) > 0
              /\ errors[Len(errors)].messageId = last.env.id
              /\ errors[Len(errors)].location = "whatsapp.service.ts:downloadMedia"

\* C8: a media event whose download throws or returns nothing is still stored
\* with its type, its caption or file name or else the placeholder, and a null
\* media_path; a throwing download adds exactly one error log entry and the
\* ingestion does not fail.
C8_MediaFailureStillStored ==
    /\ []C8_RowStored
    /\ [][(JustHandled /\ FailedDownload(last'))
            => Len(errors') = Len(errors) + (IF last'.dl = "throws" THEN 1 ELSE 0)]_vars

C8_ThrowingDownloadStored ==
    /\ FailedDownload(last)
    /\ last.dl = "throws"
    /\ last.outcome = "saved"
    /\ messages[Len(messages)].content = <<"lunch">>
    /\ messages[Len(messages)].media_path = Null
    /\ Len(errors) = 1

DeleteOps == {"message_delete", "chat_delete", "chat_clear"}

\* C9: stored message rows are only ever appended to; a message-delete,
\* chat-delete or chat-clear event leaves the messages table unchanged and
\* appends exactly one event record per deleted key, deleted chat or cleared chat.
C9_DeletionsOnlyLogged ==
    [][/\ IsPrefix(messages, messages')
       /\ (JustHandled /\ last'.op \in DeleteOps) =>
             /\ messages' = messages
             /\ IsPrefix(events, events')
             /\ Len(events') = Len(events) + Len(last'.items)
             /\ \A i \in 1 .. Len(last'.items) :
                   LET e == events'[Len(events) + i] IN
                   /\ e.event_type = last'.op
                   /\ IF last'.op = "message_delete"
                      THEN e.message_id = OrNull(last'.items[i])
                      ELSE e.remote_jid = OrNull(last'.items[i])]_vars

C9_ChatsDeleted ==
    /\ last.op = "chat_delete"
    /\ Len(last.items) = 2
    /\ Len(messages) = 1
    /\ Len(events) = 2

MetadataKeys == {"reactionMessage", "senderKeyDistributionMessage",
                 "protocolMessage", "messageContextInfo"}

\* The payload carries something other than metadata.
Substantive(m) == \E i \in 1 .. Len(m.keys) : m.keys[i] \notin MetadataKeys

\* C10: every processed message event whose unwrapped payload carries more
\* than metadata has a row in the messages table.
C10_SubstantiveStored ==
    (/\ LastProcessed
     /\ Substantive(unwrapMessage(last.env.message))
     /\ NormalizeJid(last.env) # StatusBroadcast)
    => HasMessageId(messages, LastId)

\* C11: a processed message event whose unwrapped payload is empty or carries
\* only reaction, key-distribution, protocol or context-info metadata is
\* dropped and leaves no row.
C11_MetadataNeverStored ==
    (LastProcessed /\ ~Substantive(unwrapMessage(last.env.message)))
    => last.outcome = "dropped"

\* C12: an event addressed in @lid form that carries a canonical alternative
\* is stored under the canonical conversation id, the id an event addressed in
\* canonical form is stored under.
C12_CanonicalRemoteJid ==
    (LastProcessed /\ last.outcome = "saved") =>
        LET r == messages[Len(messages)] IN
        /\ (EndsWith(last.env.remoteJid, LidSuffix) /\ last.env.remoteJidAlt # <<>>)
              => r.remote_jid = last.env.remoteJidAlt
        /\ ~EndsWith(last.env.remoteJid, LidSuffix)
              => r.remote_jid = last.env.remoteJid

C12_BothFormsTogether ==
    /\ LastProcessed /\ last.outcome = "saved"
    /\ last.env.remoteJid = AliceLid
    /\ last.env.remoteJidAlt = Alice
    /\ Len(messages) = 2
    /\ messages[1].remote_jid = Alice
    /\ messages[2].remote_jid = Alice

\* C13: every stored timestamp is a non-negative number of seconds.
C13_NonNegativeTimestamp ==
    \A i \in 1 .. Len(messages) : messages[i].timestamp >= 0

\* C14: no operation calls the remote logout; disconnect() ends the transport
\* of the current socket and leaves the credential files alone; resetSession()
\* ends it, deletes the credential files and starts a connect; nothing else
\* deletes credential files.
C14_NoRemoteLogout ==
    /\ [](remoteLogouts = 0)
    /\ [][DisconnectAny
            => (credentials' = credentials /\ socket \notin live' /\ socket' = 0)]_vars
    /\ [][ResetSessionAny
            => (~credentials' /\ socket \notin live'
                /\ pendingConnects' = pendingConnects + 1)]_vars
    /\ [][(credentials /\ ~credentials') => ResetSessionAny]_vars

C14_DisconnectedWithCredentials ==
    /\ started
    /\ credentials
    /\ socket = 0
    /\ live = {}
    /\ status = "disconnected"
    /\ pendingConnects = 0
    /\ timers = EmptyBag

\* The exponential backoff that starts at the first delay and doubles, as the
\* first two delays do, up to the ceiling.
ExponentialDelay(n) == Min(BackoffStep * 2 ^ (n - 1), BackoffCap)

\* C15: the close that counts the n-th consecutive reconnect attempt arms a
\* timer with the exponential backoff delay of n.
C15_ExponentialBackoff ==
    [][(reconnectAttempts' = reconnectAttempts + 1)
         => timers' = timers (+) SetToBag({ExponentialDelay(reconnectAttempts')})]_vars

Unconfigured == ~config.emailService \/ ~config.reportTo

\* C16: no handler invocation is lost to an exception: each has produced a
\* result or is still pending, a failed email send becomes a failed result
\* with shouldReply set, and without an email service or a recipient the
\* state, csv and qr handlers fail with an explanation, send no email and
\* leave the session alone.
C16_HandlersFailGracefully ==
    /\ [](/\ ~rejected
          /\ Len(results) + Len(jobs) = Len(executed)
          /\ \A i \in 1 .. Len(results) :
                /\ results[i].shouldReply
                /\ results[i].message # <<>>
                /\ results[i].message = ErrorText => ~results[i].success
          /\ Unconfigured =>
                /\ emails = <<>>
                /\ jobs = <<>>
                /\ \A i \in 1 .. Len(results) :
                      results[i].cmd \in {"state", "csv", "qr"} =>
                          /\ ~results[i].success
                          /\ results[i].message =
                                IF ~config.emailService THEN NoEmailService
                                ELSE NoRecipient)
    /\ [][(Unconfigured /\ Len(executed') > Len(executed)) => UNCHANGED connVars]_vars

C16_SendFailureReported ==
    \E i \in 1 .. Len(results) :
        /\ results[i].message = ErrorText
        /\ ~results[i].success
        /\ results[i].shouldReply
        /\ emails = <<>>

CsvMessages(csv) == Tail(csv)

\* C17: every CSV mailed by the csv command holds exactly the stored
\* messages of the current day, restricted to the supervised numbers when
\* some are configured, and none from an earlier day.
C17_CsvOnlyToday ==
    \A i \in 1 .. Len(emails) : emails[i].cmd = "csv" =>
        LET lines == CsvMessages(emails[i].attachment) IN
        /\ \A k \in 1 .. Len(lines) :
              /\ lines[k][7] >= StartOfDay(now) * 1000
              /\ Len(config.filterNumbers) > 0 =>
                    MatchesPhone([remote_jid |-> lines[k][2]], config.filterNumbers)
        /\ LET cmd == CHOOSE m \in 1 .. Len(messages) : messages[m].message_id = M1
           IN \A m \in 1 .. cmd :
                 (/\ IsToday(messages[m], now)
                  /\ \/ Len(config.filterNumbers) = 0
                     \/ MatchesPhone(messages[m], config.filterNumbers))
                 => \E k \in 1 .. Len(lines) : lines[k][4] = messages[m].message_id

\* The archived account's own identity, on none of the allow-lists used
OwnAccount == <<"1", "555", "@", "s.whatsapp.net">>

\* The identity that sent a message: the account itself for a from-me
\* message, the chat's counterpart otherwise.
SendingIdentity(env) == IF env.fromMe THEN OwnAccount ELSE NormalizeJid(env)

\* C18: a message is dispatched to a command handler only when its sending
\* identity is on the allow-list; a message the account itself sent into a
\* direct chat is not executed unless the account's own number is listed.
C18_OwnMessagesNotExecuted ==
    [][(JustHandled /\ Len(executed') = Len(executed) + 1 /\ last'.env.fromMe)
         => OnAllowList(SendingIdentity(last'.env), config.allowedNumbers)]_vars

\* C19: writing to the error log never raises: under every input and every
\* store failure, the failure to obtain the store handle included, logError
\* and logFromException return a record or null.
C19_ErrorLogNeverRaises ==
    last.op \in {"logError", "logFromException"} => last.outcome \in {"record", "null"}

Ordered(rows, order) ==
    \A i \in 1 .. (Len(rows) - 1) :
        IF order = <<"asc">> THEN rows[i].timestamp <= rows[i + 1].timestamp
        ELSE rows[i].timestamp >= rows[i + 1].timestamp

ExpectedOrder(query) ==
    IF query.sortOrder \in {<<"asc">>, <<"desc">>} THEN query.sortOrder
    ELSE IF query.search # <<>> \/ query.remoteJid = <<>> THEN <<"desc">>
    ELSE <<"asc">>

\* C20: under every combination of filters the page is ordered by timestamp
\* and the reported order is the explicit one when given, else ascending
\* for a conversation id alone and descending with a search term or without
\* a conversation id.
C20_SortOrder ==
    last.op = "getMessages" =>
        /\ last.outcome = ExpectedOrder(last.env)
        /\ Ordered(last.items, last.outcome)

C20_ConversationOldestFirst ==
    /\ last.op = "getMessages"
    /\ last.env.sortOrder = <<>> /\ last.env.remoteJid = Alice /\ last.env.search = <<>>
    /\ Len(last.items) = 2
    /\ last.items[1].timestamp < last.items[2].timestamp
    /\ messages[1].timestamp > messages[2].timestamp

\* A CSV reader after RFC 4180: records end at LF, CR or CRLF, fields at a
\* comma; a field that opens with a quote runs to its closing quote, a
\* doubled quote inside standing for one quote.
RECURSIVE ParseCsvFrom(_, _, _, _, _, _)
ParseCsvFrom(text, i, st, field, record, records) ==
    IF i > Len(text)
    THEN IF st = "start" /\ record = <<>> /\ records # <<>> THEN records
         ELSE Append(records, Append(record, field))
    ELSE
    LET c == text[i]
        endField == ParseCsvFrom(text, i + 1, "field", <<>>, Append(record, field), records)
        endRecord ==
            ParseCsvFrom(text,
                         IF c = CarriageReturn /\ i < Len(text) /\ text[i + 1] = LineFeed
                         THEN i + 2 ELSE i + 1,
                         "start", <<>>, <<>>, Append(records, Append(record, field)))
    IN
    IF st = "quoted"
    THEN IF c = Quote THEN ParseCsvFrom(text, i + 1, "closing", field, record, records)
         ELSE ParseCsvFrom(text, i + 1, "quoted", Append(field, c), record, records)
    ELSE IF st = "closing" /\ c = Quote
    THEN ParseCsvFrom(text, i + 1, "quoted", Append(field, c), record, records)
    ELSE IF st \in {"start", "field"} /\ c = Quote
    THEN ParseCsvFrom(text, i + 1, "quoted", field, record, records)
    ELSE IF c = Comma THEN endField
    ELSE IF c \in {LineFeed, CarriageReturn} THEN endRecord
    ELSE ParseCsvFrom(text, i + 1, "unquoted", Append(field, c), record, records)

ParseCsv(text) == ParseCsvFrom(text, 1, "start", <<>>, <<>>, <<>>)

\* C21: the escaped form of every field value is read back by a CSV reader
\* as that one value, wherever it stands in its line; a value holding a
\* comma, a quote, LF or CR is wrapped in quotes with inner quotes doubled,
\* any other value is emitted unchanged.
C21_CsvRoundTrip ==
    last.op = "escapeCsvField" =>
        LET field == last.env
            escaped == last.items
        IN
        /\ ParseCsv(escaped \o <<Comma, "z">>) = << <<field, <<"z">>>> >>
        /\ ParseCsv(<<"z", Comma>> \o escaped \o <<LineFeed>>) = << <<<<"z">>, field>> >>
        /\ IF NeedsQuoting(field)
           THEN /\ Head(escaped) = Quote
                /\ escaped[Len(escaped)] = Quote
                /\ SubSeq(escaped, 2, Len(escaped) - 1) = DoubleQuotes(field)
           ELSE escaped = field

C21_CommaQuoteNewline ==
    /\ last.op = "escapeCsvField"
    /\ last.env = <<Comma, Quote, LineFeed>>
    /\ last.items = <<Quote, Comma, Quote, Quote, LineFeed, Quote>>

KeepsNames(table, table2) ==
    \A i \in 1 .. Len(table) :
        table[i].name # Null =>
            /\ Len(table2) >= i
            /\ table2[i].jid = table[i].jid
            /\ table2[i].name # Null

\* C22: no refresh replaces a cached non-null name by null; a picture
\* refresh leaves every cached name as it was and a name refresh leaves
\* every cached picture as it was.
C22_RefreshMerges ==
    [][/\ KeepsNames(groups, groups')
       /\ KeepsNames(contacts, contacts')
       /\ ProfilePictureDoneAny =>
             \A i \in 1 .. Len(groups) : groups'[i].name = groups[i].name
       /\ GroupMetadataDoneAny =>
             \A i \in 1 .. Len(groups) :
                 groups'[i].profile_picture = groups[i].profile_picture]_vars

C22_NameAndPictureCached ==
    \E i \in 1 .. Len(groups) :
        /\ groups[i].name # Null
        /\ groups[i].profile_picture # Null
        /\ groups[i].updated_at > Epoch

\* C23: a name refresh of a group that saves the name also starts the
\* refresh of the group's picture, and a message of a group whose entry is
\* younger than 24 hours starts no refresh.
C23_RefreshUpdatesBoth ==
    [][/\ \A r \in BagToSet(refreshes) :
             (r.kind = "name" /\ refreshes' # refreshes /\ groups' # groups)
             => BagIn(Refresh(r.jid, "picture"), refreshes')
       /\ (JustHandled /\ last'.op = "processMessage"
           /\ ~needsRefresh(groups, NormalizeJid(last'.env), now))
          => refreshes' = refreshes]_vars

StatusEdge(a, b) ==
    \/ a = b
    \/ a = "disconnected" /\ b = "connecting"
    \/ a = "connecting" /\ b = "qr_ready"
    \/ a \in {"connecting", "qr_ready"} /\ b = "connected"
    \/ b = "disconnected"

\* C24: every change of the connection status follows an edge of the state
\* machine disconnected -> connecting -> qr_ready -> connected, with any
\* state -> disconnected; connected never becomes connecting or qr_ready
\* directly.
C24_StatusFollowsEdges == [][StatusEdge(status, status')]_vars

\* C25: a QR payload is held only while the status is qr_ready; it is set
\* together with the transition to qr_ready and cleared by every transition
\* to connecting, connected or disconnected.
C25_QrOnlyWhileQrReady == qrCode # 0 => status = "qr_ready"

CallStep == last'.op = "call" /\ <<messages, callVars, last>>' # <<messages, callVars, last>>

CallRows(table, id, suffix) ==
    {i \in 1 .. Len(table) : table[i].message_id = <<"call_", id, suffix>>}

RowsKept == /\ Len(messages') >= Len(messages)
            /\ \A i \in 1 .. Len(messages) : messages'[i] = messages[i]

TerminalCall(call) == call.status \in {"timeout", "reject", "terminate"}

\* What the end row of a call says, from the events observed so far.
ExpectedEnd(call) ==
    IF call.status = "timeout" THEN CallContent(call, <<"Missed">>)
    ELSE IF call.status = "reject" THEN CallContent(call, <<"Rejected">>)
    ELSE IF HasCall(observed, call.id)
    THEN CallContent(call, durationStr(now - CallOf(observed, call.id).startTime))
    ELSE CallContent(call, <<"Ended">>)

\* C26: whatever the sequence of lifecycle events of a call, at most one
\* call_{id}_start row and one call_{id}_end row are stored and no stored
\* row is modified; a stored end row says Missed after timeout, Rejected
\* after reject, and after terminate the non-negative time elapsed since
\* the last observed offer, ringing or accept of the call, or Ended when
\* none was observed; a terminal event removes the call from ongoingCalls.
C26_CallLog ==
    [][CallStep =>
        LET call == last'.items[1] IN
        /\ RowsKept
        /\ \A id \in CallIds, suffix \in {"_start", "_end"} :
              Cardinality(CallRows(messages', id, suffix)) <= 1
        /\ TerminalCall(call) =>
              /\ ~HasCall(ongoingCalls', call.id)
              /\ HasCall(observed, call.id) =>
                    now >= CallOf(observed, call.id).startTime
              /\ last'.outcome = "saved" =>
                    /\ Len(messages') = Len(messages) + 1
                    /\ messages'[Len(messages')].message_id = <<"call_", call.id, "_end">>
                    /\ messages'[Len(messages')].content = ExpectedEnd(call)]_vars

\* C27: each message_id triggers at most one command execution; a delivery
\* whose insert is a duplicate no-op runs no handler.
C27_OneExecutionPerMessage ==
    \A i, j \in 1 .. Len(executed) :
        executed[i].message_id = executed[j].message_id => i = j

\* C28: a qr handler that was started while connected, and so has reset the
\* session, never ends with a failed result: neither because no QR code is
\* available after the wait nor because the email send failed.
C28_QrResetDeliversCode ==
    [][\A i \in 1 .. Len(jobs) :
          (/\ jobs[i].cmd = "qr"
           /\ jobs[i].status = "connected"
           /\ jobs' = RemoveAt(jobs, i)
           /\ Len(results') = Len(results) + 1)
          => results'[Len(results')].success]_vars

IsReply(env) == env.fromMe /\ StartsWith(env.id, <<"3EB0">>)

\* C29: no reply text is itself recognized as a command: when a reply comes
\* back through ingestion as an outbound text message of the same direct
\* conversation, no handler runs and no further reply is produced.
C29_RepliesRunNoCommand ==
    [][(JustHandled /\ IsReply(last'.env))
         => (executed' = executed /\ results' = results /\ jobs' = jobs)]_vars

C29_ReplyCameBack ==
    /\ last.op = "processMessage"
    /\ IsReply(last.env)
    /\ last.outcome = "saved"
    /\ isCommandNumber(last.env.remoteJid, config.allowedNumbers)
    /\ \E i \in 1 .. Len(results) :
          /\ results[i].sent
          /\ last.env.message.conversation = results[i].message
          /\ last.env.remoteJid = results[i].to

====
